---- MODULE Spec2Model ----
(***************************************************************************)
(* The opcode handler table of the zkEVM interpreter (handlers map of      *)
(* functions.ts), run by the dispatch loop over one call frame.            *)
(*                                                                         *)
(* One action per handler.  A handler that awaits a sub-frame (the CALL    *)
(* and CREATE families) is split at that await: the first action runs the  *)
(* handler up to the invocation of the environment sub-call, the Resume    *)
(* action runs the rest once the sub-frame has returned.  All other        *)
(* awaited environment calls (storage, external code) complete inside the  *)
(* action with a result drawn from the world fixture.                      *)
(*                                                                         *)
(* The words on the stack are BN values of any size (see the BN section);   *)
(* offsets, lengths and destinations are the numbers toNumber() gives.     *)
(***************************************************************************)
EXTENDS Integers, Sequences, FiniteSets, TLC

(***************************************************************************)
(* Bounds of the model                                                     *)
(***************************************************************************)
\* jump destinations tried by the jump programs are 0..MaxDest
MaxDest == 9
\* the sub-frame returns between 0 and MaxRet bytes
MaxRet == 3
\* gas limits the dispatcher reserves for a sub-call are 1..MaxGasLimit
MaxGasLimit == 2
\* cap on the number of opcodes one frame executes
MaxSteps == 3000

(***************************************************************************)
(* Opcode bytes (keys of the handlers map)                                 *)
(***************************************************************************)
STOP == 0
ADD == 1
MUL == 2
SUB == 3
DIV == 4
SDIV == 5
MOD == 6
SMOD == 7
ADDMOD == 8
MULMOD == 9
EXP == 10
SIGNEXTEND == 11
LT == 16
GT == 17
SLT == 18
SGT == 19
EQ == 20
ISZERO == 21
AND == 22
OR == 23
XOR == 24
NOT == 25
BYTE == 26
SHL == 27
SHR == 28
SAR == 29
SHA3 == 32
CALLVALUE == 52
CALLDATALOAD == 53
CALLDATACOPY == 55
CODECOPY == 57
EXTCODECOPY == 60
RETURNDATACOPY == 62
POP == 80
SSTORE == 85
JUMP == 86
JUMPI == 87
PC == 88
JUMPDEST == 91
BEGINSUB == 92
RETURNSUB == 93
JUMPSUB == 94
PUSH0 == 95
PUSH1 == 96
PUSH32 == 127
DUP1 == 128
DUP16 == 143
LOG0 == 160
LOG4 == 164
CREATE == 240
CALL == 241
CALLCODE == 242
RETURN == 243
DELEGATECALL == 244
CREATE2 == 245
STATICCALL == 250
REVERT == 253
INVALID == 254
SELFDESTRUCT == 255

\* runState.messageGasLimit = undefined
Undefined == -1
\* Stack._maxHeight
MaxHeight == 1024
\* common.param('gasPrices', 'expByte')
ExpByteGas == 50

(***************************************************************************)
(* Buffers and numbers                                                     *)
(***************************************************************************)
Min(a, b) == IF a < b THEN a ELSE b

Max(a, b) == IF a > b THEN a ELSE b

Zeros(n) == [i \in 1..n |-> 0]

\* Buffer.slice(from, to): the bytes at 0-based positions from .. to-1 that exist
Slice(buf, from, to) == SubSeq(buf, Min(from, Len(buf)) + 1, Min(to, Len(buf)))

\* setLengthRight(msg, length): zero bytes appended up to length, the first
\* length bytes of a longer msg
setLengthRight(msg, length) ==
  IF Len(msg) < length THEN msg \o Zeros(length - Len(msg))
  ELSE SubSeq(msg, 1, length)

\* BN.byteLength(): ceil(bitLength / 8), 0 for zero
RECURSIVE ByteLength(_)
ByteLength(n) == IF n = 0 THEN 0 ELSE 1 + ByteLength(n \div 256)

\* BN.toArrayLike(Buffer).length: max(1, byteLength)
ToArrayLikeLength(n) == Max(1, ByteLength(n))

\* BN.toArrayLike(Buffer, 'be'): the shortest big-endian bytes, <<0>> for zero
RECURSIVE ToBytesBE(_)
ToBytesBE(n) ==
  IF n < 256 THEN <<n>> ELSE Append(ToBytesBE(n \div 256), n % 256)

\* getDataSlice(data, offset, length): the slice, right-padded with zeros to length
GetDataSlice(data, offset, length) ==
  [i \in 1..length |-> IF offset + i <= Len(data) THEN data[offset + i] ELSE 0]

\* keccak256 is a library hash: a fixed deterministic stand-in on byte strings
RECURSIVE Keccak256(_)
Keccak256(bs) ==
  IF bs = <<>> THEN 197 ELSE (Keccak256(SubSeq(bs, 1, Len(bs) - 1)) * 31 + bs[Len(bs)] + 7) % 65521

(***************************************************************************)
(* BN: the arbitrary-precision integers the word stack holds (bn.js).      *)
(* A BN is the sequence <<negative>> \o words: negative is 0 or 1 and      *)
(* words are the digits of the magnitude in base 256, least significant    *)
(* first, without a most significant zero digit; zero is <<0>>.            *)
(***************************************************************************)
\* digit sequences: strip the most significant zero digits
Strip(ws) ==
  LET used == {i \in 1..Len(ws) : ws[i] # 0}
  IN  IF used = {} THEN <<>>
      ELSE SubSeq(ws, 1, CHOOSE i \in used : \A j \in used : j <= i)

\* the i-th digit (1 = least significant), 0 beyond the most significant
Digit(ws, i) == IF i <= Len(ws) THEN ws[i] ELSE 0

\* BN.ucmp on magnitudes: -1, 0 or 1, decided by the most significant digit
\* in which they differ
UCmp(x, y) ==
  IF Len(x) # Len(y) THEN (IF Len(x) < Len(y) THEN -1 ELSE 1)
  ELSE LET differ == {i \in 1..Len(x) : x[i] # y[i]}
       IN  IF differ = {} THEN 0
           ELSE LET top == CHOOSE i \in differ : \A j \in differ : j <= i
                IN  IF x[top] < y[top] THEN -1 ELSE 1

RECURSIVE NumberWords(_)
NumberWords(n) == IF n = 0 THEN <<>> ELSE <<n % 256>> \o NumberWords(n \div 256)

\* carry propagation over the column values lo..hi of cols, halving the
\* range: the digits of these columns and the carry they pass on
RECURSIVE CarryRange(_, _, _, _)
CarryRange(cols, lo, hi, carry) ==
  IF lo > hi THEN [digits |-> <<>>, carry |-> carry]
  ELSE IF lo = hi
  THEN LET s == cols[lo] + carry
       IN  [digits |-> <<s % 256>>, carry |-> s \div 256]
  ELSE LET mid == (lo + hi) \div 2
           low == CarryRange(cols, lo, mid, carry)
           high == CarryRange(cols, mid + 1, hi, low.carry)
       IN  [digits |-> low.digits \o high.digits, carry |-> high.carry]

\* the digits of a sequence of column values
Carry(cols) ==
  LET r == CarryRange(cols, 1, Len(cols), 0)
  IN  r.digits \o NumberWords(r.carry)

\* magnitude of a sum
UAdd(x, y) == Carry([i \in 1..Max(Len(x), Len(y)) |-> Digit(x, i) + Digit(y, i)])

\* magnitude of a difference x - y, for x >= y: x plus the complement of y
\* plus 1, without the carry out of the last digit
USub(x, y) ==
  Strip(CarryRange([i \in 1..Len(x) |-> x[i] + 255 - Digit(y, i)], 1, Len(x), 1).digits)

\* magnitude times a small number
UMulSmall(x, m) == Strip(Carry([i \in 1..Len(x) |-> x[i] * m]))

\* sum of the digit products x[i] * y[k + 1 - i] for i in lo..hi
RECURSIVE ColSum(_, _, _, _, _)
ColSum(x, y, k, lo, hi) ==
  IF lo > hi THEN 0
  ELSE IF lo = hi THEN x[lo] * y[k + 1 - lo]
  ELSE ColSum(x, y, k, lo, (lo + hi) \div 2) + ColSum(x, y, k, (lo + hi) \div 2 + 1, hi)

\* magnitude of a product
UMul(x, y) ==
  IF x = <<>> \/ y = <<>> THEN <<>>
  ELSE Strip(Carry([k \in 1..(Len(x) + Len(y) - 1) |->
                      ColSum(x, y, k, Max(1, k + 1 - Len(y)), Min(Len(x), k))]))

\* the value of the digits of ws from position i upwards
RECURSIVE ValueFrom(_, _)
ValueFrom(ws, i) == IF i > Len(ws) THEN 0 ELSE ws[i] + 256 * ValueFrom(ws, i + 1)

\* the largest d from hi downwards with d * y <= x
RECURSIVE QuotientDigit(_, _, _)
QuotientDigit(x, y, hi) ==
  IF hi = 0 \/ UCmp(UMulSmall(y, hi), x) <= 0 THEN hi
  ELSE QuotientDigit(x, y, hi - 1)

\* floor(x / y) for x < 256 * y: estimated from the leading digits of x and y
DivDigit(x, y) ==
  IF UCmp(x, y) < 0 THEN 0
  ELSE LET n == Len(y)
           from == Max(1, n - 1)
       IN  QuotientDigit(x, y, Min(255, (ValueFrom(x, from) + 1) \div ValueFrom(y, from)))

\* long division over the digits hi down to lo of x, halving the range: rem
\* (less than y) is what the digits above hi leave; the quotient digits of
\* these positions, most significant first, and what they leave
RECURSIVE DivRange(_, _, _, _, _)
DivRange(x, y, hi, lo, rem) ==
  IF hi < lo THEN [quotient |-> <<>>, remainder |-> rem]
  ELSE IF hi = lo
  THEN LET cur == Strip(<<x[hi]>> \o rem)
           d == DivDigit(cur, y)
       IN  [quotient |-> <<d>>,
            remainder |-> IF d = 0 THEN cur ELSE USub(cur, UMulSmall(y, d))]
  ELSE LET mid == (lo + hi) \div 2
           upper == DivRange(x, y, hi, mid + 1, rem)
           lower == DivRange(x, y, mid, lo, upper.remainder)
       IN  [quotient |-> upper.quotient \o lower.quotient,
            remainder |-> lower.remainder]

\* quotient and remainder of the magnitudes, y not zero; division by a
\* power of 256 splits the digits
UDivMod(x, y) ==
  IF y = Zeros(Len(y) - 1) \o <<1>>
  THEN [quotient |-> SubSeq(x, Len(y), Len(x)),
        remainder |-> Strip(SubSeq(x, 1, Min(Len(x), Len(y) - 1)))]
  ELSE LET r == DivRange(x, y, Len(x), 1, <<>>)
       IN  [quotient |-> Strip([i \in 1..Len(x) |-> r.quotient[Len(x) + 1 - i]]),
            remainder |-> r.remainder]

\* bitwise and of two digits
RECURSIVE DigitAnd(_, _)
DigitAnd(a, b) ==
  IF a = 0 \/ b = 0 THEN 0
  ELSE (a % 2) * (b % 2) + 2 * DigitAnd(a \div 2, b \div 2)

RECURSIVE Pow2(_)
Pow2(n) == IF n = 0 THEN 1 ELSE 2 * Pow2(n - 1)

\* the sign and the magnitude of a BN
Negative(x) == Head(x)

Words(x) == Tail(x)

\* a BN from a sign and digits, normalised as bn.js strips it
MkBN(negative, ws) ==
  LET s == Strip(ws) IN <<IF s = <<>> THEN 0 ELSE negative>> \o s

\* new BN(number)
BN(n) == MkBN(0, NumberWords(n))

\* new BN(buffer) reading the bytes least significant first
BNFromBufferLittleEndian(buf) == MkBN(0, buf)

\* new BN(buffer): the big-endian value of the bytes
BNFromBuffer(buf) == MkBN(0, [i \in 1..Len(buf) |-> buf[Len(buf) + 1 - i]])

\* toNumber()
toNumber(x) == IF Negative(x) = 1 THEN 0 - ValueFrom(Words(x), 1) ELSE ValueFrom(Words(x), 1)

TWO_POW256 == MkBN(0, Zeros(32) \o <<1>>)

MAX_INTEGER == MkBN(0, [i \in 1..32 |-> 255])

isZero(x) == Words(x) = <<>>

isNeg(x) == Negative(x) = 1

abs(x) == MkBN(0, Words(x))

\* ineg() / neg(): zero stays non-negative
ineg(x) == MkBN(1 - Negative(x), Words(x))

\* cmp(): -1, 0 or 1
cmp(x, y) ==
  IF Negative(x) # Negative(y) THEN (IF isNeg(x) THEN -1 ELSE 1)
  ELSE IF isNeg(x) THEN 0 - UCmp(Words(x), Words(y))
  ELSE UCmp(Words(x), Words(y))

lt(x, y) == cmp(x, y) < 0

gt(x, y) == cmp(x, y) > 0

eq(x, y) == cmp(x, y) = 0

\* gten(n), ltn(n): comparison with a number
gten(x, n) == cmp(x, BN(n)) >= 0

ltn(x, n) == cmp(x, BN(n)) < 0

add(x, y) ==
  IF Negative(x) = Negative(y) THEN MkBN(Negative(x), UAdd(Words(x), Words(y)))
  ELSE IF UCmp(Words(x), Words(y)) >= 0
       THEN MkBN(Negative(x), USub(Words(x), Words(y)))
       ELSE MkBN(Negative(y), USub(Words(y), Words(x)))

sub(x, y) == add(x, ineg(y))

mul(x, y) ==
  MkBN(IF Negative(x) = Negative(y) THEN 0 ELSE 1, UMul(Words(x), Words(y)))

\* div(): the quotient truncated toward zero
div(x, y) ==
  MkBN(IF Negative(x) = Negative(y) THEN 0 ELSE 1, UDivMod(Words(x), Words(y)).quotient)

\* mod(): the remainder of div(), with the sign of the dividend
mod(x, y) == MkBN(Negative(x), UDivMod(Words(x), Words(y)).remainder)

\* muln(n), iaddn(n), isubn(n) with a number
muln(x, n) == mul(x, BN(n))

iaddn(x, n) == add(x, BN(n))

isubn(x, n) == sub(x, BN(n))

\* and(), or(), xor() of non-negative numbers
and(x, y) ==
  MkBN(0, [i \in 1..Min(Len(Words(x)), Len(Words(y))) |->
             DigitAnd(Words(x)[i], Words(y)[i])])

or(x, y) ==
  MkBN(0, [i \in 1..Max(Len(Words(x)), Len(Words(y))) |->
             LET a == Digit(Words(x), i)
                 b == Digit(Words(y), i)
             IN  a + b - DigitAnd(a, b)])

xor(x, y) ==
  MkBN(0, [i \in 1..Max(Len(Words(x)), Len(Words(y))) |->
             LET a == Digit(Words(x), i)
                 b == Digit(Words(y), i)
             IN  a + b - 2 * DigitAnd(a, b)])

\* andln(n): the low bits of the number as a number
andln(x, n) == DigitAnd(Digit(Words(x), 1), n)

\* notn(width): the low width bits inverted, width a multiple of 8
notn(x, width) ==
  MkBN(0, [i \in 1..(width \div 8) |-> 255 - Digit(Words(x), i)])

\* testn(bit)
testn(x, bit) == (Digit(Words(x), bit \div 8 + 1) \div Pow2(bit % 8)) % 2 = 1

\* shln(bits), ishln(bits)
shln(x, bits) ==
  MkBN(Negative(x), Zeros(bits \div 8) \o UMulSmall(Words(x), Pow2(bits % 8)))

\* shrn(bits)
shrn(x, bits) ==
  LET ws == Words(x)
      skip == bits \div 8
      p == Pow2(bits % 8)
  IN  MkBN(Negative(x),
           [i \in 1..(Len(ws) - skip) |->
              (ws[i + skip] \div p) + (Digit(ws, i + skip + 1) % p) * (256 \div p)])

\* toTwos(width)
toTwos(x, width) == IF isNeg(x) THEN iaddn(notn(abs(x), width), 1) ELSE x

\* fromTwos(width)
fromTwos(x, width) ==
  IF testn(x, width - 1) THEN ineg(iaddn(notn(x, width), 1)) ELSE x

\* byteLength(): ceil(bitLength / 8), 0 for zero
byteLength(x) == Len(Words(x))

\* toArrayLike(Buffer, 'be'): the shortest big-endian bytes, one zero byte for zero
toArrayLike(x) ==
  IF isZero(x) THEN <<0>>
  ELSE [i \in 1..Len(Words(x)) |-> Words(x)[Len(Words(x)) + 1 - i]]

\* toArrayLike(Buffer, 'be', length): big-endian bytes left-padded to length
toArrayLikePadded(x, length) ==
  Zeros(length - Len(Words(x))) \o
    [i \in 1..Len(Words(x)) |-> Words(x)[Len(Words(x)) + 1 - i]]

\* square-and-multiply over the bits k .. 1 of one word of the exponent,
\* every product reduced modulo m
RECURSIVE PowBits(_, _, _, _, _)
PowBits(base, word, k, acc, m) ==
  IF k = 0 \/ isZero(acc) THEN acc
  ELSE LET sq == mod(mul(acc, acc), m)
           bit == (word \div Pow2(k - 1)) % 2
       IN  PowBits(base, word, k - 1, IF bit = 1 THEN mod(mul(sq, base), m) ELSE sq, m)

\* ... and over the words hi down to lo of the exponent, halving the range
\* (a zero power stays zero)
RECURSIVE PowFrom(_, _, _, _, _, _)
PowFrom(base, ws, hi, lo, acc, m) ==
  IF hi < lo \/ isZero(acc) THEN acc
  ELSE IF hi = lo THEN PowBits(base, ws[hi], 8, acc, m)
  ELSE LET mid == (lo + hi) \div 2
           upper == PowFrom(base, ws, hi, mid + 1, acc, m)
       IN  IF isZero(upper) THEN upper ELSE PowFrom(base, ws, mid, lo, upper, m)

\* redPow that leaves out the lowest bit of the exponent
redPowHalved(base, exponent, m) ==
  LET ws == Words(shrn(exponent, 1))
  IN  PowFrom(mod(base, m), ws, Len(ws), 1, mod(BN(1), m), m)

\* base.toRed(BN.red(m)).redPow(exponent).fromRed(): base^exponent modulo m
redPow(base, exponent, m) ==
  LET ws == Words(exponent)
  IN  PowFrom(mod(base, m), ws, Len(ws), 1, mod(BN(1), m), m)

(***************************************************************************)
(* Memory                                                                  *)
(***************************************************************************)
MemExtend(mem, offset, length) ==
  IF length = 0 THEN mem
  ELSE LET newSize == ((offset + length + 31) \div 32) * 32
       IN  IF newSize > Len(mem) THEN mem \o Zeros(newSize - Len(mem)) ELSE mem

MemRead(mem, offset, size) ==
  [i \in 1..size |-> IF offset + i <= Len(mem) THEN mem[offset + i] ELSE 0]

MemWrite(mem, offset, size, value) ==
  IF size = 0 THEN mem
  ELSE [i \in 1..Len(mem) |->
          IF i > offset /\ i <= offset + size THEN value[i - offset] ELSE mem[i]]

(***************************************************************************)
(* Jump destination analysis of a code buffer                              *)
(***************************************************************************)
\* positions (0-based) of the opcode bytes of code, skipping PUSH data
RECURSIVE OpcodePositions(_, _)
OpcodePositions(c, i) ==
  IF i >= Len(c) THEN {}
  ELSE LET op == c[i + 1]
       IN  {i} \cup OpcodePositions(c, IF op >= PUSH1 /\ op <= PUSH32 THEN i + 1 + (op - PUSH0) ELSE i + 1)

ValidJumps(c) == {i \in OpcodePositions(c, 0) : c[i + 1] = JUMPDEST}

ValidJumpSubs(c) == {i \in OpcodePositions(c, 0) : c[i + 1] = BEGINSUB}

(***************************************************************************)
(* Precompiles: functions of the PrecompileInput o, returning the          *)
(* ExecResult, the counters recorded and the library calls made on the way *)
(***************************************************************************)
\* sha256 is a library hash: a fixed deterministic stand-in with 32-byte digests
RECURSIVE Sha256From(_, _, _)
Sha256From(bs, i, acc) ==
  IF acc < 0 \/ i > Len(bs) THEN acc
  ELSE Sha256From(bs, i + 1, (acc * 33 + bs[i] + 5) % 65521)

sha256(bs) ==
  LET mix == Sha256From(bs, 1, 103)
  IN  [i \in 1..32 |-> (mix * i + Len(bs) + i) % 256]

\* OOGResult(gasLimit)
OOGResult(gasLimit) ==
  [gasUsed |-> gasLimit, returnValue |-> <<>>, exceptionError |-> "OUT_OF_GAS"]

\* Math.ceil(length / 32)
CeilWords(length) == (length + 31) \div 32

\* the SHA-256 precompile that also runs out of gas on a gas limit equal to the gas used
Sha256PrecompileStrict(o) ==
  LET data == o.data
      gasUsed == o.gasPrices.sha256 + o.gasPrices.sha256Word * CeilWords(Len(data))
  IN  IF o.gasLimit <= gasUsed
      THEN [result |-> OOGResult(o.gasLimit), counters |-> <<>>, calls |-> <<>>]
      ELSE [result |-> [gasUsed |-> gasUsed, returnValue |-> sha256(data),
                        exceptionError |-> "none"],
            counters |-> <<[name |-> "preSHA256", calldataLength |-> Len(data)]>>,
            calls |-> <<>>]

\* precompiles/02-sha256.ts
Sha256Precompile(o) ==
  LET data == o.data
      gasUsed == o.gasPrices.sha256 + o.gasPrices.sha256Word * CeilWords(Len(data))
  IN  IF o.gasLimit < gasUsed
      THEN [result |-> OOGResult(o.gasLimit), counters |-> <<>>, calls |-> <<>>]
      ELSE [result |-> [gasUsed |-> gasUsed, returnValue |-> sha256(data),
                        exceptionError |-> "none"],
            counters |-> <<[name |-> "preSHA256", calldataLength |-> Len(data)]>>,
            calls |-> <<>>]

\* setLengthLeft(msg, length)
setLengthLeft(msg, length) ==
  IF Len(msg) < length THEN Zeros(length - Len(msg)) \o msg
  ELSE SubSeq(msg, Len(msg) - length + 1, Len(msg))

\* a 32-byte value of the signature fixture
Field(t) == [i \in 1..32 |-> (t * 16 + i) % 256]

\* the signatures of the fixture that verify, as <<msgHash, r, s, x, y>>:
\* one of five different values, one under a public key with y = 0
Signatures ==
  {<<Field(1), Field(2), Field(3), Field(4), Field(5)>>,
   <<Field(5), Field(4), Field(3), Field(2), Zeros(32)>>}

\* key.verify(msgHash, {r, s}) under the key (x, y) of the elliptic library:
\* the outcomes it can have, true for the signatures that verify, false or
\* an exception for everything else
KeyVerify(msgHash, r, s, pubKeyX, pubKeyY) ==
  IF <<msgHash, r, s, pubKeyX, pubKeyY>> \in Signatures THEN {"true"}
  ELSE {"false", "throws"}

\* verifyP256Signature(msgHash, r, s, pubKeyX, pubKeyY): its outcomes
verifyP256Signature(msgHash, r, s, pubKeyX, pubKeyY) ==
  IF \/ Len(pubKeyX) # 32
     \/ Len(pubKeyY) # 32
     \/ Len(r) # 32
     \/ Len(s) # 32
     \/ Len(msgHash) # 32
  THEN {"throws"}
  ELSE KeyVerify(msgHash, r, s, pubKeyX, pubKeyY)

\* the arguments the P256VERIFY precompile calls verifyP256Signature with,
\* in the order of the call
VerifyArguments(o) ==
  LET data == setLengthRight(o.data, 160)
      msg == Slice(data, 0, 32)
      r == Slice(data, 32, 64)
      s == Slice(data, 64, 96)
      pubKeyX == Slice(data, 96, 128)
      pubKeyY == Slice(data, 128, 160)
  IN  <<pubKeyX, pubKeyY, r, s, msg>>

\* precompiles/100-p256verify.ts, with the outcome isValid of the verification
P256VerifyPrecompile(o, isValid) ==
  LET gasUsed == o.gasPrices.p256verify
      call == [k |-> "verifyP256Signature", a |-> VerifyArguments(o), b |-> isValid]
  IN  IF o.gasLimit < gasUsed
      THEN [result |-> OOGResult(o.gasLimit), counters |-> <<>>, calls |-> <<>>]
      ELSE IF isValid = "throws"
      THEN [result |-> [gasUsed |-> gasUsed, returnValue |-> <<>>,
                        exceptionError |-> "none"],
            counters |-> <<>>, calls |-> <<call>>]
      ELSE [result |-> [gasUsed |-> gasUsed,
                        returnValue |-> IF isValid = "true" THEN setLengthLeft(<<1>>, 32)
                                        ELSE <<>>,
                        exceptionError |-> "none"],
            counters |-> <<>>, calls |-> <<call>>]

(***************************************************************************)
(* State of one call frame                                                 *)
(***************************************************************************)
VARIABLES
  code,             \* eei.getCode(): the code buffer of the frame
  env,              \* eei._env: the frame environment, fixed for the frame
  stack,            \* runState.stack._store, top of stack last
  memory,           \* runState.memory._store
  programCounter,   \* runState.programCounter
  opCode,           \* runState.opCode: the opcode being (or last) executed
  returnStack,      \* runState.returnStack._store
  messageGasLimit,  \* runState.messageGasLimit
  gasLeft,          \* eei._gasLeft
  returnData,       \* eei.getReturnData()
  vcm,              \* runState.vcm: number of counters recorded, per name
  status,           \* "running", "pending" (sub-frame running), "halted"
  trap,             \* the trap that halted the frame, "none" otherwise
  pending,          \* locals of the handler suspended at its sub-call
  lastCounters,     \* counters recorded by the current/last handler execution
  events,           \* effects of the current/last handler execution, in order
  pre,              \* run state when the current/last handler started
  steps,            \* opcodes executed so far
  opts,             \* PrecompileInput of the precompile call, NoOpts without one
  execResult        \* ExecResult the precompile returned, NoResult before

vars == <<code, env, stack, memory, programCounter, opCode, returnStack,
          messageGasLimit, gasLeft, returnData, vcm, status, trap, pending,
          lastCounters, events, pre, steps, opts, execResult>>

CounterNames ==
  {"opAdd", "opMul", "opSub", "opDiv", "opSDiv", "opMod", "opSMod", "opAddMod",
   "opMulMod", "opSignExtend", "opLT", "opGT", "opSLT", "opSGT", "opEq",
   "opIsZero", "opAnd", "opOr", "opXor", "opNot", "opByte", "opSHL", "opSHR",
   "opSAR", "opCalldataLoad",
   "opStop", "opExp", "opSha3", "opCallValue", "opCalldataCopy", "opCodeCopy",
   "opExtCodeCopy", "opReturnDataCopy", "opPop", "opSStore", "opJump",
   "opJumpI", "opPC", "opJumpDest", "opPush0", "_opPush", "_opDup", "_opLog",
   "opCreate", "opCreate2", "opCall", "opCallCode", "opDelegateCall",
   "opStaticCall", "opReturn", "opRevert", "opSendAll", "_processContractCall",
   "preSHA256"}

\* no precompile is called
NoOpts == [address |-> 0, data |-> <<>>, gasLimit |-> 0, gasPrices |-> <<>>]

\* the precompile has not returned
NoResult == [gasUsed |-> Undefined, returnValue |-> <<>>, exceptionError |-> "none"]

NoPending ==
  [op |-> INVALID, gasLimit |-> Undefined, to |-> 0, value |-> 0, data |-> <<>>,
   outOffset |-> 0, outLength |-> 0]

\* an effect of a handler: a tag and two arguments
Ev(k, a, b) == [k |-> k, a |-> a, b |-> b]

(***************************************************************************)
(* World fixture behind the environment interface                          *)
(***************************************************************************)
\* eei.getExternalCode(address)
ExternalCode(addr) == IF addr = 1 THEN <<STOP, JUMPDEST, STOP, STOP, STOP>> ELSE <<>>

\* return data a sub-frame can produce
RetDatas == {[i \in 1..n |-> 160 + i] : n \in 0..MaxRet}

\* gas limits the dispatcher's gas accounting can reserve for a sub-call
GasLimits == 1..MaxGasLimit

(***************************************************************************)
(* The run state a handler works on, and the primitives handlers call.     *)
(* A trap ends the handler: every primitive is a no-op on a halted state.  *)
(***************************************************************************)
\* the run state the dispatcher hands to the handler of opcode op:
\* program counter advanced past the opcode byte
Start(op) ==
  [opCode |-> op, stack |-> stack, memory |-> memory,
   programCounter |-> programCounter + 1, returnStack |-> returnStack,
   messageGasLimit |-> messageGasLimit, gasLeft |-> gasLeft,
   returnData |-> returnData, counters |-> <<>>, events |-> <<>>,
   trap |-> "none", status |-> "running", pending |-> NoPending]

\* ... and for the call and create families, with the gas limit g reserved
StartReserved(op, g) == [Start(op) EXCEPT !.messageGasLimit = g]

\* the run state with which a suspended handler resumes
Resumed ==
  [opCode |-> opCode, stack |-> stack, memory |-> memory,
   programCounter |-> programCounter, returnStack |-> returnStack,
   messageGasLimit |-> messageGasLimit, gasLeft |-> gasLeft,
   returnData |-> returnData, counters |-> lastCounters, events |-> events,
   trap |-> "none", status |-> "running", pending |-> NoPending]

Halted(rs) == rs.status = "halted"

\* trap(err)
Trap(rs, err) ==
  IF Halted(rs) THEN rs ELSE [rs EXCEPT !.trap = err, !.status = "halted"]

\* the i-th word from the top of a stack (1 = top), zero when missing
Word(stk, i) == IF i <= Len(stk) THEN stk[Len(stk) - i + 1] ELSE BN(0)

\* ... and the number it holds: toNumber()
Peek(stk, i) == toNumber(Word(stk, i))

\* stack.popN(n) / stack.pop()
PopN(rs, n) ==
  IF Halted(rs) THEN rs
  ELSE IF Len(rs.stack) < n THEN Trap(rs, "STACK_UNDERFLOW")
  ELSE [rs EXCEPT !.stack = SubSeq(@, 1, Len(@) - n),
                  !.events = Append(@, Ev("pop", n, 0))]

\* stack.push(v)
Push(rs, v) ==
  IF Halted(rs) THEN rs
  ELSE IF Len(rs.stack) >= MaxHeight THEN Trap(rs, "STACK_OVERFLOW")
  ELSE [rs EXCEPT !.stack = Append(@, v),
                  !.events = Append(@, Ev("push", v, 0))]

\* stack.dup(n)
Dup(rs, n) ==
  IF Halted(rs) THEN rs
  ELSE IF Len(rs.stack) < n THEN Trap(rs, "STACK_UNDERFLOW")
  ELSE Push(rs, Word(rs.stack, n))

\* returnStack.pop() / returnStack.push(v) work on the return substack
ReturnStackPop(rs) ==
  IF Halted(rs) THEN rs
  ELSE IF Len(rs.returnStack) < 1 THEN Trap(rs, "STACK_UNDERFLOW")
  ELSE [rs EXCEPT !.returnStack = SubSeq(@, 1, Len(@) - 1)]

ReturnStackPush(rs, v) ==
  IF Halted(rs) THEN rs
  ELSE IF Len(rs.returnStack) >= MaxHeight - 1 THEN Trap(rs, "STACK_OVERFLOW")
  ELSE [rs EXCEPT !.returnStack = Append(@, v)]

\* runState.vcm.computeFunctionCounters(name, params)
Vcm(rs, counter) ==
  IF Halted(rs) THEN rs
  ELSE [rs EXCEPT !.counters = Append(@, counter),
                  !.events = Append(@, Ev("vcm", counter.name, 0))]

\* EnvFlags with the two flags of the environment exchanged
EnvFlagsSwapped(name) ==
  [name |-> name, isCreate |-> env.isDeploy, isDeploy |-> env.isCreate]

\* the params every handler takes from the frame environment
EnvFlags(name) ==
  [name |-> name, isCreate |-> env.isCreate, isDeploy |-> env.isDeploy]

\* a call of the environment interface that changes no run state
Eei(rs, fn, a, b) ==
  IF Halted(rs) THEN rs ELSE [rs EXCEPT !.events = Append(@, Ev(fn, a, b))]

\* eei.useGas(amount)
UseGas(rs, amount) ==
  IF Halted(rs) THEN rs
  ELSE IF rs.gasLeft < amount
       THEN Trap([rs EXCEPT !.gasLeft = 0, !.events = Append(@, Ev("useGas", amount, 0))],
                 "OUT_OF_GAS")
  ELSE [rs EXCEPT !.gasLeft = @ - amount,
                  !.events = Append(@, Ev("useGas", amount, 0))]

\* memory.read(offset, length) of a non-empty slice, Buffer.alloc(0) otherwise
ReadSlice(rs, offset, length) ==
  IF length = 0 THEN <<>> ELSE MemRead(rs.memory, offset, length)

NoteRead(rs, offset, length) ==
  IF Halted(rs) \/ length = 0 THEN rs
  ELSE [rs EXCEPT !.events = Append(@, Ev("memRead", offset, length))]

\* memory.extend(offset, length); memory.write(offset, length, data)
ExtendAndWrite(rs, offset, length, data) ==
  IF Halted(rs) THEN rs
  ELSE [rs EXCEPT !.memory = MemWrite(MemExtend(@, offset, length), offset, length, data),
                  !.events = Append(@, Ev("memWrite", offset, length))]

SetPC(rs, pc) == IF Halted(rs) THEN rs ELSE [rs EXCEPT !.programCounter = pc]

\* ClearGasLimit that leaves the reservation on the run state
ClearGasLimitKept(rs) == rs

\* gasLimit = runState.messageGasLimit!; runState.messageGasLimit = undefined
ClearGasLimit(rs) ==
  IF Halted(rs) THEN rs ELSE [rs EXCEPT !.messageGasLimit = Undefined]

\* await runState.eei.<fn>(gasLimit, ...): the handler is suspended while the
\* sub-frame runs
Invoke(rs, fn, p) ==
  IF Halted(rs) THEN rs
  ELSE [rs EXCEPT !.status = "pending", !.pending = p,
                  !.events = Append(@, Ev(fn, p.gasLimit, p.value))]

\* writeCallOutput(runState, outOffset, outLength)
WriteCallOutput(rs, outOffset, outLength) ==
  IF Len(rs.returnData) > 0
  THEN LET dataLength == Min(outLength, Len(rs.returnData))
           data == GetDataSlice(rs.returnData, 0, dataLength)
       IN  ExtendAndWrite(rs, outOffset, dataLength, data)
  ELSE rs

(***************************************************************************)
(* The handlers, in the order of the handlers map                          *)
(***************************************************************************)
\* 0x00
HandlerSTOP(rs) == Trap(Vcm(rs, EnvFlags("opStop")), "STOP")

\* HandlerEXP that charges the gas before it records its counter
HandlerEXPGasFirst(rs) ==
  LET r1 == PopN(rs, 2)
      base == Word(rs.stack, 1)
      exponent == Word(rs.stack, 2)
      counter == [name |-> "opExp",
                  bytesExponentLength |-> Len(toArrayLike(exponent)),
                  isCreate |-> env.isCreate, isDeploy |-> env.isDeploy]
  IN  IF isZero(exponent) THEN Push(Vcm(r1, counter), BN(1))
      ELSE LET byteLen == byteLength(exponent)
               r3 == Vcm(UseGas(r1, byteLen * ExpByteGas), counter)
           IN  IF isZero(base) THEN Push(r3, BN(0))
               ELSE Push(r3, redPow(base, exponent, TWO_POW256))

\* 0x0a
HandlerEXP(rs) ==
  LET r1 == PopN(rs, 2)
      base == Word(rs.stack, 1)
      exponent == Word(rs.stack, 2)
      r2 == Vcm(r1, [name |-> "opExp",
                     bytesExponentLength |-> Len(toArrayLike(exponent)),
                     isCreate |-> env.isCreate, isDeploy |-> env.isDeploy])
  IN  IF isZero(exponent) THEN Push(r2, BN(1))
      ELSE LET byteLen == byteLength(exponent)
               r3 == IF byteLen < 1 \/ byteLen > 32
                     THEN Trap(r2, "OUT_OF_RANGE") ELSE r2
               amount == muln(BN(byteLen), ExpByteGas)
               r4 == UseGas(r3, toNumber(amount))
           IN  IF isZero(base) THEN Push(r4, BN(0))
               ELSE Push(r4, redPow(base, exponent, TWO_POW256))

\* HandlerADD that pushes the sum as it is
HandlerADDUnreduced(rs) ==
  LET r1 == PopN(Vcm(rs, EnvFlags("opAdd")), 2)
      a == Word(rs.stack, 1)
      b == Word(rs.stack, 2)
  IN  Push(r1, add(a, b))

\* 0x01
HandlerADD(rs) ==
  LET r1 == PopN(Vcm(rs, EnvFlags("opAdd")), 2)
      a == Word(rs.stack, 1)
      b == Word(rs.stack, 2)
  IN  Push(r1, mod(add(a, b), TWO_POW256))

\* 0x02
HandlerMUL(rs) ==
  LET r1 == PopN(Vcm(rs, EnvFlags("opMul")), 2)
      a == Word(rs.stack, 1)
      b == Word(rs.stack, 2)
  IN  Push(r1, mod(mul(a, b), TWO_POW256))

\* 0x03
HandlerSUB(rs) ==
  LET r1 == PopN(Vcm(rs, EnvFlags("opSub")), 2)
      a == Word(rs.stack, 1)
      b == Word(rs.stack, 2)
  IN  Push(r1, toTwos(sub(a, b), 256))

\* 0x04
HandlerDIV(rs) ==
  LET r1 == PopN(Vcm(rs, EnvFlags("opDiv")), 2)
      a == Word(rs.stack, 1)
      b == Word(rs.stack, 2)
  IN  Push(r1, IF isZero(b) THEN b ELSE div(a, b))

\* 0x05
HandlerSDIV(rs) ==
  LET r1 == PopN(Vcm(rs, EnvFlags("opSDiv")), 2)
      a == Word(rs.stack, 1)
      b == Word(rs.stack, 2)
  IN  Push(r1, IF isZero(b) THEN b
               ELSE toTwos(div(fromTwos(a, 256), fromTwos(b, 256)), 256))

\* 0x06
HandlerMOD(rs) ==
  LET r1 == PopN(Vcm(rs, EnvFlags("opMod")), 2)
      a == Word(rs.stack, 1)
      b == Word(rs.stack, 2)
  IN  Push(r1, IF isZero(b) THEN b ELSE mod(a, b))

\* HandlerSMOD whose result takes the sign of the divisor
HandlerSMODSignOfDivisor(rs) ==
  LET r1 == PopN(Vcm(rs, EnvFlags("opSMod")), 2)
      a == fromTwos(Word(rs.stack, 1), 256)
      b == fromTwos(Word(rs.stack, 2), 256)
      r == mod(abs(a), abs(b))
  IN  Push(r1, IF isZero(Word(rs.stack, 2)) THEN Word(rs.stack, 2)
               ELSE toTwos(IF isNeg(b) THEN ineg(r) ELSE r, 256))

\* 0x07
HandlerSMOD(rs) ==
  LET r1 == PopN(Vcm(rs, EnvFlags("opSMod")), 2)
      a == fromTwos(Word(rs.stack, 1), 256)
      b == fromTwos(Word(rs.stack, 2), 256)
      r == mod(abs(a), abs(b))
  IN  Push(r1, IF isZero(Word(rs.stack, 2)) THEN Word(rs.stack, 2)
               ELSE toTwos(IF isNeg(a) THEN ineg(r) ELSE r, 256))

\* HandlerADDMOD that reduces the sum to 256 bits before the modulo
HandlerADDMODWrapped(rs) ==
  LET r1 == PopN(Vcm(rs, EnvFlags("opAddMod")), 3)
      a == Word(rs.stack, 1)
      b == Word(rs.stack, 2)
      c == Word(rs.stack, 3)
  IN  Push(r1, IF isZero(c) THEN c ELSE mod(mod(add(a, b), TWO_POW256), c))

\* 0x08
HandlerADDMOD(rs) ==
  LET r1 == PopN(Vcm(rs, EnvFlags("opAddMod")), 3)
      a == Word(rs.stack, 1)
      b == Word(rs.stack, 2)
      c == Word(rs.stack, 3)
  IN  Push(r1, IF isZero(c) THEN c ELSE mod(add(a, b), c))

\* 0x09
HandlerMULMOD(rs) ==
  LET r1 == PopN(Vcm(rs, EnvFlags("opMulMod")), 3)
      a == Word(rs.stack, 1)
      b == Word(rs.stack, 2)
      c == Word(rs.stack, 3)
  IN  Push(r1, IF isZero(c) THEN c ELSE mod(mul(a, b), c))

\* HandlerSIGNEXTEND that leaves the high bits of a positive value
HandlerSIGNEXTENDNoClear(rs) ==
  LET r1 == PopN(Vcm(rs, EnvFlags("opSignExtend")), 2)
      k == Word(rs.stack, 1)
      val == Word(rs.stack, 2)
      signBit == toNumber(iaddn(muln(k, 8), 7))
      mask == isubn(shln(BN(1), signBit), 1)
  IN  Push(r1, IF ltn(k, 31) /\ testn(val, signBit) THEN or(val, notn(mask, 256))
               ELSE val)

\* 0x0b
HandlerSIGNEXTEND(rs) ==
  LET r1 == PopN(Vcm(rs, EnvFlags("opSignExtend")), 2)
      k == Word(rs.stack, 1)
      val == Word(rs.stack, 2)
      signBit == toNumber(iaddn(muln(k, 8), 7))
      mask == isubn(shln(BN(1), signBit), 1)
  IN  Push(r1, IF ltn(k, 31)
               THEN (IF testn(val, signBit) THEN or(val, notn(mask, 256))
                     ELSE and(val, mask))
               ELSE val)

\* 0x10
HandlerLT(rs) ==
  LET r1 == PopN(Vcm(rs, EnvFlags("opLT")), 2)
      a == Word(rs.stack, 1)
      b == Word(rs.stack, 2)
  IN  Push(r1, BN(IF lt(a, b) THEN 1 ELSE 0))

\* 0x11
HandlerGT(rs) ==
  LET r1 == PopN(Vcm(rs, EnvFlags("opGT")), 2)
      a == Word(rs.stack, 1)
      b == Word(rs.stack, 2)
  IN  Push(r1, BN(IF gt(a, b) THEN 1 ELSE 0))

\* 0x12
HandlerSLT(rs) ==
  LET r1 == PopN(Vcm(rs, EnvFlags("opSLT")), 2)
      a == Word(rs.stack, 1)
      b == Word(rs.stack, 2)
  IN  Push(r1, BN(IF lt(fromTwos(a, 256), fromTwos(b, 256)) THEN 1 ELSE 0))

\* 0x13
HandlerSGT(rs) ==
  LET r1 == PopN(Vcm(rs, EnvFlags("opSGT")), 2)
      a == Word(rs.stack, 1)
      b == Word(rs.stack, 2)
  IN  Push(r1, BN(IF gt(fromTwos(a, 256), fromTwos(b, 256)) THEN 1 ELSE 0))

\* 0x14
HandlerEQ(rs) ==
  LET r1 == PopN(Vcm(rs, EnvFlags("opEq")), 2)
      a == Word(rs.stack, 1)
      b == Word(rs.stack, 2)
  IN  Push(r1, BN(IF eq(a, b) THEN 1 ELSE 0))

\* 0x15
HandlerISZERO(rs) ==
  LET r1 == PopN(Vcm(rs, EnvFlags("opIsZero")), 1)
      a == Word(rs.stack, 1)
  IN  Push(r1, BN(IF isZero(a) THEN 1 ELSE 0))

\* 0x16
HandlerAND(rs) ==
  LET r1 == PopN(Vcm(rs, EnvFlags("opAnd")), 2)
      a == Word(rs.stack, 1)
      b == Word(rs.stack, 2)
  IN  Push(r1, and(a, b))

\* 0x17
HandlerOR(rs) ==
  LET r1 == PopN(Vcm(rs, EnvFlags("opOr")), 2)
      a == Word(rs.stack, 1)
      b == Word(rs.stack, 2)
  IN  Push(r1, or(a, b))

\* 0x18
HandlerXOR(rs) ==
  LET r1 == PopN(Vcm(rs, EnvFlags("opXor")), 2)
      a == Word(rs.stack, 1)
      b == Word(rs.stack, 2)
  IN  Push(r1, xor(a, b))

\* 0x19
HandlerNOT(rs) ==
  LET r1 == PopN(Vcm(rs, EnvFlags("opNot")), 1)
      a == Word(rs.stack, 1)
  IN  Push(r1, notn(a, 256))

\* 0x1a
HandlerBYTE(rs) ==
  LET r1 == PopN(Vcm(rs, EnvFlags("opByte")), 2)
      pos == Word(rs.stack, 1)
      word == Word(rs.stack, 2)
  IN  Push(r1, IF gten(pos, 32) THEN BN(0)
               ELSE BN(andln(shrn(word, (31 - toNumber(pos)) * 8), 255)))

\* HandlerSHL that keeps the bits shifted out of the word
HandlerSHLUnmasked(rs) ==
  LET r1 == PopN(Vcm(rs, EnvFlags("opSHL")), 2)
      a == Word(rs.stack, 1)
      b == Word(rs.stack, 2)
  IN  Push(r1, IF gten(a, 256) THEN BN(0) ELSE shln(b, toNumber(a)))

\* 0x1b
HandlerSHL(rs) ==
  LET r1 == PopN(Vcm(rs, EnvFlags("opSHL")), 2)
      a == Word(rs.stack, 1)
      b == Word(rs.stack, 2)
  IN  Push(r1, IF gten(a, 256) THEN BN(0)
               ELSE and(shln(b, toNumber(a)), MAX_INTEGER))

\* HandlerSHR that pushes 0 from the shift 255 on
HandlerSHRShortRange(rs) ==
  LET r1 == PopN(Vcm(rs, EnvFlags("opSHR")), 2)
      a == Word(rs.stack, 1)
      b == Word(rs.stack, 2)
  IN  Push(r1, IF gten(a, 255) THEN BN(0) ELSE shrn(b, toNumber(a)))

\* 0x1c
HandlerSHR(rs) ==
  LET r1 == PopN(Vcm(rs, EnvFlags("opSHR")), 2)
      a == Word(rs.stack, 1)
      b == Word(rs.stack, 2)
  IN  Push(r1, IF gten(a, 256) THEN BN(0) ELSE shrn(b, toNumber(a)))

\* HandlerSAR that shifts zeros in whatever the sign
HandlerSARLogical(rs) ==
  LET r1 == PopN(Vcm(rs, EnvFlags("opSAR")), 2)
      a == Word(rs.stack, 1)
      b == Word(rs.stack, 2)
  IN  Push(r1, IF gten(a, 256) THEN (IF testn(b, 255) THEN MAX_INTEGER ELSE BN(0))
               ELSE shrn(b, toNumber(a)))

\* 0x1d
HandlerSAR(rs) ==
  LET r1 == PopN(Vcm(rs, EnvFlags("opSAR")), 2)
      a == Word(rs.stack, 1)
      b == Word(rs.stack, 2)
      isSigned == testn(b, 255)
      c == shrn(b, toNumber(a))
      shiftedOutWidth == 255 - toNumber(a)
      mask == shln(shrn(MAX_INTEGER, shiftedOutWidth), shiftedOutWidth)
  IN  Push(r1, IF gten(a, 256) THEN (IF isSigned THEN MAX_INTEGER ELSE BN(0))
               ELSE IF isSigned THEN or(c, mask) ELSE c)

\* CALLDATALOAD that reads the slice as a number without padding it
HandlerCALLDATALOADUnpadded(rs) ==
  LET r1 == PopN(Vcm(rs, EnvFlags("opCalldataLoad")), 1)
      pos == Word(rs.stack, 1)
      i == toNumber(pos)
      sliced == Slice(env.callData, i, i + 32)
      loaded == IF sliced = <<>> THEN <<0>> ELSE sliced
  IN  Push(r1, IF gt(pos, BN(Len(env.callData))) THEN BN(0)
               ELSE BNFromBuffer(loaded))

\* 0x35
HandlerCALLDATALOAD(rs) ==
  LET r1 == PopN(Vcm(rs, EnvFlags("opCalldataLoad")), 1)
      pos == Word(rs.stack, 1)
      i == toNumber(pos)
      sliced == Slice(env.callData, i, i + 32)
      loaded == IF sliced = <<>> THEN <<0>> ELSE sliced
  IN  Push(r1, IF gt(pos, BN(Len(env.callData))) THEN BN(0)
               ELSE BNFromBuffer(setLengthRight(loaded, 32)))

\* HandlerSHA3 that records its counter before it pops, as ADD does
HandlerSHA3CountFirst(rs) ==
  LET offset == Peek(rs.stack, 1)
      length == Peek(rs.stack, 2)
      r1 == Vcm(rs, [name |-> "opSha3", inputSize |-> length,
                     isCreate |-> env.isCreate, isDeploy |-> env.isDeploy])
      r2 == PopN(r1, 2)
      data == ReadSlice(r2, offset, length)
  IN  Push(NoteRead(r2, offset, length), BN(Keccak256(data)))

\* 0x20
HandlerSHA3(rs) ==
  LET r1 == PopN(rs, 2)
      offset == Peek(rs.stack, 1)
      length == Peek(rs.stack, 2)
      r2 == Vcm(r1, [name |-> "opSha3", inputSize |-> length,
                     isCreate |-> env.isCreate, isDeploy |-> env.isDeploy])
      data == ReadSlice(r2, offset, length)
  IN  Push(NoteRead(r2, offset, length), BN(Keccak256(data)))

\* 0x34
HandlerCALLVALUE(rs) == Push(Vcm(rs, EnvFlags("opCallValue")), BN(env.callValue))

\* 0x37, 0x39, 0x3e: the three copies from a buffer of the frame
CopyHandler(rs, name, source) ==
  LET r1 == PopN(rs, 3)
      memOffset == Peek(rs.stack, 1)
      dataOffset == Peek(rs.stack, 2)
      dataLength == Peek(rs.stack, 3)
  IN  IF dataLength # 0
      THEN LET data == GetDataSlice(source, dataOffset, dataLength)
               r2 == Vcm(r1, [name |-> name, inputSize |-> Len(data),
                              isCreate |-> env.isCreate, isDeploy |-> env.isDeploy])
           IN  ExtendAndWrite(r2, memOffset, dataLength, data)
      ELSE r1

HandlerCALLDATACOPY(rs) == CopyHandler(rs, "opCalldataCopy", env.callData)

HandlerCODECOPY(rs) == CopyHandler(rs, "opCodeCopy", code)

HandlerRETURNDATACOPY(rs) == CopyHandler(rs, "opReturnDataCopy", rs.returnData)

\* 0x3c
HandlerEXTCODECOPY(rs) ==
  LET r1 == PopN(rs, 4)
      addressBN == Peek(rs.stack, 1)
      memOffset == Peek(rs.stack, 2)
      codeOffset == Peek(rs.stack, 3)
      dataLength == Peek(rs.stack, 4)
  IN  IF dataLength # 0
      THEN LET extCode == ExternalCode(addressBN)
               r2 == Eei(r1, "getExternalCode", addressBN, 0)
               data == GetDataSlice(extCode, codeOffset, dataLength)
               r3 == Vcm(r2, [name |-> "opExtCodeCopy", inputSize |-> Len(data),
                              bytecodeLen |-> Len(extCode),
                              isCreate |-> env.isCreate, isDeploy |-> env.isDeploy])
           IN  ExtendAndWrite(r3, memOffset, dataLength, data)
      ELSE r1

\* 0x50
HandlerPOP(rs) == PopN(Vcm(rs, EnvFlags("opPop")), 1)

\* HandlerSSTORE that stores the value as a 32-byte word
HandlerSSTOREPadded(rs) ==
  LET r1 == Vcm(rs, EnvFlags("opSStore"))
      r2 == PopN(r1, 2)
      key == Word(rs.stack, 1)
      val == Word(rs.stack, 2)
  IN  Eei(r2, "storageStore", toArrayLikePadded(key, 32), toArrayLikePadded(val, 32))

\* 0x55
HandlerSSTORE(rs) ==
  LET r1 == Vcm(rs, EnvFlags("opSStore"))
      r2 == PopN(r1, 2)
      key == Word(rs.stack, 1)
      val == Word(rs.stack, 2)
      keyBuf == toArrayLikePadded(key, 32)
      value == IF isZero(val) THEN <<>> ELSE toArrayLike(val)
  IN  Eei(r2, "storageStore", keyBuf, value)

\* JumpTo without the lookup of the jump-destination bitmap
JumpToUnchecked(rs, dest) ==
  IF dest > Len(code) THEN Trap(rs, "INVALID_JUMP") ELSE SetPC(rs, dest)

\* the destination check shared by JUMP and JUMPI
JumpTo(rs, dest) ==
  IF dest > Len(code) THEN Trap(rs, "INVALID_JUMP")
  ELSE IF dest \notin ValidJumps(code) THEN Trap(rs, "INVALID_JUMP")
  ELSE SetPC(rs, dest)

\* 0x56
HandlerJUMP(rs) ==
  LET r1 == Vcm(rs, EnvFlags("opJump"))
      r2 == PopN(r1, 1)
      dest == Peek(rs.stack, 1)
  IN  JumpTo(r2, dest)

\* 0x57
HandlerJUMPI(rs) ==
  LET r1 == Vcm(rs, EnvFlags("opJumpI"))
      r2 == PopN(r1, 2)
      dest == Peek(rs.stack, 1)
      cond == Peek(rs.stack, 2)
  IN  IF cond # 0 THEN JumpTo(r2, dest) ELSE r2

\* 0x58
HandlerPC(rs) == Push(Vcm(rs, EnvFlags("opPC")), BN(rs.programCounter - 1))

\* 0x5b
HandlerJUMPDEST(rs) == Vcm(rs, EnvFlags("opJumpDest"))

\* 0x5c
HandlerBEGINSUB(rs) == Trap(rs, "INVALID_BEGINSUB")

\* HandlerRETURNSUB without the check of the return substack
HandlerRETURNSUBUnchecked(rs) ==
  SetPC(ReturnStackPop(rs), Peek(rs.returnStack, 1))

\* 0x5d
HandlerRETURNSUB(rs) ==
  IF Len(rs.returnStack) < 1 THEN Trap(rs, "INVALID_RETURNSUB")
  ELSE LET dest == Peek(rs.returnStack, 1)
       IN  SetPC(ReturnStackPop(rs), dest)

\* HandlerJUMPSUB that saves the position of the JUMPSUB opcode itself
HandlerJUMPSUBOwnPosition(rs) ==
  LET r1 == PopN(rs, 1)
      dest == Peek(rs.stack, 1)
  IN  IF dest > Len(code) THEN Trap(r1, "INVALID_JUMPSUB")
      ELSE IF dest \notin ValidJumpSubs(code) THEN Trap(r1, "INVALID_JUMPSUB")
      ELSE SetPC(ReturnStackPush(r1, BN(r1.programCounter - 1)), dest + 1)

\* 0x5e
HandlerJUMPSUB(rs) ==
  LET r1 == PopN(rs, 1)
      dest == Peek(rs.stack, 1)
  IN  IF dest > Len(code) THEN Trap(r1, "INVALID_JUMPSUB")
      ELSE IF dest \notin ValidJumpSubs(code) THEN Trap(r1, "INVALID_JUMPSUB")
      ELSE SetPC(ReturnStackPush(r1, BN(r1.programCounter)), dest + 1)

\* 0x5f
HandlerPUSH0(rs) == Push(Vcm(rs, EnvFlags("opPush0")), BN(0))

\* HandlerPUSH that pushes before it advances the program counter
HandlerPUSHPushFirst(rs) ==
  LET numToPush == rs.opCode - PUSH0
      r1 == Vcm(rs, [name |-> "_opPush", pushBytes |-> numToPush,
                     isCreate |-> env.isCreate, isDeploy |-> env.isDeploy])
      loaded == BNFromBuffer(Slice(code, rs.programCounter, rs.programCounter + numToPush))
      r2 == Push(r1, loaded)
  IN  SetPC(r2, r2.programCounter + numToPush)

\* 0x60 .. 0x7f
HandlerPUSH(rs) ==
  LET numToPush == rs.opCode - PUSH0
      r1 == Vcm(rs, [name |-> "_opPush", pushBytes |-> numToPush,
                     isCreate |-> env.isCreate, isDeploy |-> env.isDeploy])
      loaded == BNFromBuffer(Slice(code, rs.programCounter, rs.programCounter + numToPush))
      r2 == SetPC(r1, r1.programCounter + numToPush)
  IN  Push(r2, loaded)

\* 0x80 .. 0x8f
HandlerDUP(rs) ==
  LET r1 == Vcm(rs, EnvFlags("_opDup"))
      stackPos == rs.opCode - (DUP1 - 1)
  IN  Dup(r1, stackPos)

\* 0xa0 .. 0xa4
HandlerLOG(rs) ==
  LET r1 == PopN(rs, 2)
      memOffset == Peek(rs.stack, 1)
      memLength == Peek(rs.stack, 2)
      r2 == Vcm(r1, [name |-> "_opLog", inputSize |-> memLength,
                     isCreate |-> env.isCreate, isDeploy |-> env.isDeploy])
      topicsCount == rs.opCode - LOG0
      r3 == PopN(r2, topicsCount)
      mem == ReadSlice(r3, memOffset, memLength)
  IN  Eei(NoteRead(r3, memOffset, memLength), "log", mem, topicsCount)

\* the params of the _processContractCall counter
ProcessContractCall(bytecodeLength, isCreate, isCreate2) ==
  [name |-> "_processContractCall", bytecodeLength |-> bytecodeLength,
   isDeploy |-> FALSE, isCreate |-> isCreate, isCreate2 |-> isCreate2]

\* the nonce metric of opCreate and opCreate2
BytesNonceLength == ToArrayLikeLength(env.nonce + 1)

\* 0xf0, up to the await of eei.create
HandlerCREATE(rs) ==
  LET r1 == PopN(rs, 3)
      value == Peek(rs.stack, 1)
      offset == Peek(rs.stack, 2)
      length == Peek(rs.stack, 3)
      r2 == Vcm(r1, [name |-> "opCreate", bytesNonceLength |-> BytesNonceLength,
                     isCreate |-> env.isCreate, isDeploy |-> env.isDeploy])
      r3 == Vcm(r2, ProcessContractCall(length, TRUE, FALSE))
      gasLimit == r3.messageGasLimit
      r4 == ClearGasLimit(r3)
      data == ReadSlice(r4, offset, length)
  IN  Invoke(NoteRead(r4, offset, length), "create",
             [op |-> rs.opCode, gasLimit |-> gasLimit, to |-> 0, value |-> value,
              data |-> data, outOffset |-> 0, outLength |-> 0])

\* 0xf5, up to the await of eei.create2
HandlerCREATE2(rs) ==
  LET r0 == IF env.isStatic THEN Trap(rs, "STATIC_STATE_CHANGE") ELSE rs
      r1 == PopN(r0, 4)
      value == Peek(rs.stack, 1)
      offset == Peek(rs.stack, 2)
      length == Peek(rs.stack, 3)
      salt == Peek(rs.stack, 4)
      r2 == Vcm(r1, [name |-> "opCreate2", bytesNonceLength |-> BytesNonceLength,
                     isCreate |-> env.isCreate, isDeploy |-> env.isDeploy])
      r3 == Vcm(r2, ProcessContractCall(length, FALSE, TRUE))
      gasLimit == r3.messageGasLimit
      r4 == ClearGasLimit(r3)
      data == ReadSlice(r4, offset, length)
  IN  Invoke(NoteRead(r4, offset, length), "create2",
             [op |-> rs.opCode, gasLimit |-> gasLimit, to |-> 0, value |-> value,
              data |-> data, outOffset |-> 0, outLength |-> 0])

\* 0xf0, 0xf5 after the await: ret = [returnCode, results]
ResumeCreate(rs, ret) ==
  LET r1 == Eei(rs, "return", ret.returnCode, 0)
  IN  Push(r1, BN(ret.returnCode))

\* 0xf1, up to the await of eei.call
HandlerCALL(rs) ==
  LET r1 == Vcm(rs, EnvFlags("opCall"))
      r2 == PopN(r1, 7)
      toAddr == Peek(rs.stack, 2)
      value == Peek(rs.stack, 3)
      inOffset == Peek(rs.stack, 4)
      inLength == Peek(rs.stack, 5)
      outOffset == Peek(rs.stack, 6)
      outLength == Peek(rs.stack, 7)
      bytecodeLength == Len(ExternalCode(toAddr))
      r3 == Eei(r2, "getExternalCodeSize", toAddr, 0)
      r4 == Vcm(r3, ProcessContractCall(bytecodeLength, FALSE, FALSE))
      data == ReadSlice(r4, inOffset, inLength)
      r5 == NoteRead(r4, inOffset, inLength)
      gasLimit == r5.messageGasLimit
      r6 == ClearGasLimit(r5)
  IN  Invoke(r6, "call",
             [op |-> rs.opCode, gasLimit |-> gasLimit, to |-> toAddr, value |-> value,
              data |-> data, outOffset |-> outOffset, outLength |-> outLength])

\* 0xf2, up to the await of eei.callCode
HandlerCALLCODE(rs) ==
  LET r1 == Vcm(rs, EnvFlags("opCallCode"))
      r2 == PopN(r1, 7)
      toAddr == Peek(rs.stack, 2)
      value == Peek(rs.stack, 3)
      inOffset == Peek(rs.stack, 4)
      inLength == Peek(rs.stack, 5)
      outOffset == Peek(rs.stack, 6)
      outLength == Peek(rs.stack, 7)
      bytecodeLength == Len(ExternalCode(toAddr))
      r3 == Eei(r2, "getExternalCodeSize", toAddr, 0)
      r4 == Vcm(r3, ProcessContractCall(bytecodeLength, FALSE, FALSE))
      gasLimit == r4.messageGasLimit
      r5 == ClearGasLimit(r4)
      data == ReadSlice(r5, inOffset, inLength)
      r6 == NoteRead(r5, inOffset, inLength)
  IN  Invoke(r6, "callCode",
             [op |-> rs.opCode, gasLimit |-> gasLimit, to |-> toAddr, value |-> value,
              data |-> data, outOffset |-> outOffset, outLength |-> outLength])

\* DELEGATECALL that takes its value from the stack, as CALL does
HandlerDELEGATECALLStackValue(rs) ==
  LET r1 == Vcm(rs, EnvFlags("opDelegateCall"))
      r2 == PopN(r1, 7)
      toAddr == Peek(rs.stack, 2)
      value == Peek(rs.stack, 3)
      inOffset == Peek(rs.stack, 4)
      inLength == Peek(rs.stack, 5)
      outOffset == Peek(rs.stack, 6)
      outLength == Peek(rs.stack, 7)
      bytecodeLength == Len(ExternalCode(toAddr))
      r3 == Eei(r2, "getExternalCodeSize", toAddr, 0)
      r4 == Vcm(r3, ProcessContractCall(bytecodeLength, FALSE, FALSE))
      data == ReadSlice(r4, inOffset, inLength)
      r5 == NoteRead(r4, inOffset, inLength)
      gasLimit == r5.messageGasLimit
      r6 == ClearGasLimit(r5)
  IN  Invoke(r6, "callDelegate",
             [op |-> rs.opCode, gasLimit |-> gasLimit, to |-> toAddr, value |-> value,
              data |-> data, outOffset |-> outOffset, outLength |-> outLength])

\* 0xf4, up to the await of eei.callDelegate
HandlerDELEGATECALL(rs) ==
  LET r1 == Vcm(rs, EnvFlags("opDelegateCall"))
      value == env.callValue
      r2 == PopN(r1, 6)
      toAddr == Peek(rs.stack, 2)
      inOffset == Peek(rs.stack, 3)
      inLength == Peek(rs.stack, 4)
      outOffset == Peek(rs.stack, 5)
      outLength == Peek(rs.stack, 6)
      bytecodeLength == Len(ExternalCode(toAddr))
      r3 == Eei(r2, "getExternalCodeSize", toAddr, 0)
      r4 == Vcm(r3, ProcessContractCall(bytecodeLength, FALSE, FALSE))
      data == ReadSlice(r4, inOffset, inLength)
      r5 == NoteRead(r4, inOffset, inLength)
      gasLimit == r5.messageGasLimit
      r6 == ClearGasLimit(r5)
  IN  Invoke(r6, "callDelegate",
             [op |-> rs.opCode, gasLimit |-> gasLimit, to |-> toAddr, value |-> value,
              data |-> data, outOffset |-> outOffset, outLength |-> outLength])

\* 0xfa, up to the await of eei.callStatic
HandlerSTATICCALL(rs) ==
  LET r1 == Vcm(rs, EnvFlags("opStaticCall"))
      value == 0
      r2 == PopN(r1, 6)
      toAddr == Peek(rs.stack, 2)
      inOffset == Peek(rs.stack, 3)
      inLength == Peek(rs.stack, 4)
      outOffset == Peek(rs.stack, 5)
      outLength == Peek(rs.stack, 6)
      bytecodeLength == Len(ExternalCode(toAddr))
      r3 == Eei(r2, "getExternalCodeSize", toAddr, 0)
      r4 == Vcm(r3, ProcessContractCall(bytecodeLength, FALSE, FALSE))
      gasLimit == r4.messageGasLimit
      r5 == ClearGasLimit(r4)
      data == ReadSlice(r5, inOffset, inLength)
      r6 == NoteRead(r5, inOffset, inLength)
  IN  Invoke(r6, "callStatic",
             [op |-> rs.opCode, gasLimit |-> gasLimit, to |-> toAddr, value |-> value,
              data |-> data, outOffset |-> outOffset, outLength |-> outLength])

\* ResumeCall that pushes the status word before it writes the return data
ResumeCallPushFirst(rs, ret) ==
  LET r1 == Eei([rs EXCEPT !.returnData = ret.results], "return", ret.returnCode, 0)
      r2 == Push(r1, BN(ret.returnCode))
  IN  WriteCallOutput(r2, pending.outOffset, pending.outLength)

\* 0xf1, 0xf2, 0xf4, 0xfa after the await: the environment holds the
\* sub-frame's return data, ret = [returnCode, results]
ResumeCall(rs, ret) ==
  LET r1 == Eei([rs EXCEPT !.returnData = ret.results], "return", ret.returnCode, 0)
      r2 == WriteCallOutput(r1, pending.outOffset, pending.outLength)
  IN  Push(r2, BN(ret.returnCode))

\* 0xf3
HandlerRETURN(rs) ==
  LET r1 == PopN(rs, 2)
      offset == Peek(rs.stack, 1)
      length == Peek(rs.stack, 2)
      r2 == Vcm(r1, [name |-> "opReturn", returnLength |-> length,
                     isCreate |-> env.isCreate, isDeploy |-> env.isDeploy,
                     depth |-> env.depth])
      data == ReadSlice(r2, offset, length)
      r3 == Eei(NoteRead(r2, offset, length), "finish", data, 0)
  IN  Trap(r3, "STOP")

\* 0xfd
HandlerREVERT(rs) ==
  LET r1 == PopN(rs, 2)
      offset == Peek(rs.stack, 1)
      length == Peek(rs.stack, 2)
      r2 == Vcm(r1, [name |-> "opRevert", revertSize |-> length,
                     isCreate |-> env.isCreate, isDeploy |-> env.isDeploy])
      data == ReadSlice(r2, offset, length)
      r3 == Eei(NoteRead(r2, offset, length), "revert", data, 0)
  IN  Trap(r3, "REVERT")

\* 0xff
HandlerSELFDESTRUCT(rs) ==
  LET r1 == Vcm(rs, EnvFlags("opSendAll"))
      r2 == PopN(r1, 1)
      selfdestructToAddress == Peek(rs.stack, 1)
      r3 == Eei(r2, "selfDestruct", selfdestructToAddress, 0)
  IN  Trap(r3, "STOP")

(***************************************************************************)
(* Programs and frame environments the frames of the model run             *)
(***************************************************************************)
\* PUSHn v with the shortest n
Lit(v) ==
  IF v < 256 THEN <<PUSH1, v>>
  ELSE IF v < 65536 THEN <<PUSH1 + 1, v \div 256, v % 256>>
  ELSE <<PUSH1 + 2, v \div 65536, (v \div 256) % 256, v % 256>>

\* pushes that leave args[1] on top of the stack, args[2] below it, ...
RECURSIVE PushArgs(_)
PushArgs(args) ==
  IF args = <<>> THEN <<>> ELSE PushArgs(Tail(args)) \o Lit(Head(args))

Op(op, args) == PushArgs(args) \o <<op, STOP>>

\* PUSHn of the n immediate bytes
PushBytes(bytes) == <<PUSH1 + Len(bytes) - 1>> \o bytes

\* CALLDATACOPY(0, 0, 3): three bytes of call data into memory
FillMemory == PushArgs(<<0, 0, 3>>) \o <<CALLDATACOPY>>

StateChangePrograms ==
     {Op(SSTORE, <<2, val>>) : val \in {0, 1, 258}}
  \cup {FillMemory \o Op(LOG0, <<1, len>>) : len \in {0, 2}}
  \cup {FillMemory \o Op(LOG0 + 2, <<1, len, 7, 8>>) : len \in {0, 2}}
  \cup {FillMemory \o Op(CREATE, <<value, 1, len>>) : value \in {0, 1}, len \in {0, 2}}
  \cup {FillMemory \o Op(CREATE2, <<value, 1, len, 9>>) : value \in {0, 1}, len \in {0, 2}}
  \cup {FillMemory \o Op(SELFDESTRUCT, <<5>>)}

\* immediates of words of 0, 1, 2, 31 and 32 significant bytes
StoreWords ==
  {<<0>>, <<0, 1>>, <<128, 0>>, <<255>> \o Zeros(30), <<1>> \o Zeros(31),
   [i \in 1..32 |-> 255]}

\* SSTORE(key, val) on words of every size
StorePrograms ==
  {PushBytes(val) \o PushBytes(key) \o <<SSTORE, STOP>> :
     key \in StoreWords, val \in StoreWords}

\* the opcodes that compute a word from the words on the stack
WordOpcodes ==
  {ADD, MUL, SUB, DIV, SDIV, MOD, SMOD, ADDMOD, MULMOD, EXP, SIGNEXTEND, LT, GT,
   SLT, SGT, EQ, ISZERO, AND, OR, XOR, NOT, BYTE, SHL, SHR, SAR}

WordPrograms ==
  {Op(op, <<3, 5, 7>>) : op \in WordOpcodes \cup {CALLDATALOAD}}

CallPrograms ==
     {FillMemory \o PushArgs(<<50, to, value, 1, inLen, 2, outLen>>)
        \o <<op>> \o Op(RETURNDATACOPY, <<0, 0, 1>>) :
        op \in {CALL, CALLCODE}, to \in {1, 2}, value \in {0, 1},
        inLen \in {0, 2}, outLen \in {0, 2, 5}}
  \cup {FillMemory \o PushArgs(<<50, 1, 1, inLen, 2, outLen>>) \o <<op, STOP>> :
        op \in {DELEGATECALL, STATICCALL}, inLen \in {0, 2}, outLen \in {0, 2, 5}}

CopyPrograms ==
     {Op(op, <<memOffset, dataOffset, len>>) :
        op \in {CALLDATACOPY, CODECOPY, RETURNDATACOPY},
        memOffset \in {0, 30}, dataOffset \in {0, 2}, len \in {0, 3, 33}}
  \cup {Op(EXTCODECOPY, <<addr, 30, 1, len>>) : addr \in {1, 2}, len \in {0, 3}}

JumpPrograms ==
     {Lit(dest) \o <<JUMP, JUMPDEST, PUSH1, JUMPDEST, STOP>> : dest \in 0..MaxDest}
  \cup {Lit(cond) \o Lit(dest) \o <<JUMPI, JUMPDEST, PUSH1, JUMPDEST, STOP>> :
        cond \in {0, 1, 2}, dest \in 0..MaxDest + 2}

SubPrograms ==
     {Lit(dest) \o <<JUMPSUB, STOP, BEGINSUB>> \o Lit(inner)
        \o <<JUMPSUB, RETURNSUB, BEGINSUB, RETURNSUB>> :
        dest \in 0..MaxDest + 3, inner \in {4, 6, 9, 92}}
  \cup {<<RETURNSUB>>, <<BEGINSUB>>, <<JUMPDEST, BEGINSUB, STOP>>, <<JUMPSUB>>}

MetricPrograms ==
     {Op(EXP, <<base, exponent>>) : base \in {0, 2}, exponent \in {0, 1, 5, 256, 65536}}
  \cup {Op(EXP, <<3, 2>>), Op(EXP, <<7>>), Op(SHA3, <<7>>), Op(RETURN, <<7>>),
        Op(REVERT, <<7>>), Op(LOG0 + 1, <<1, 2>>)}
  \cup {FillMemory \o Op(op, <<offset, len>>) :
        op \in {SHA3, RETURN, REVERT}, offset \in {0, 1}, len \in {0, 2, 33}}

StackPrograms ==
  {<<CALLVALUE, PC, DUP1 + 1, POP, POP, POP, POP>>, <<PUSH0, DUP1 + 1>>,
   <<PUSH0, PUSH1>>, <<PUSH1 + 1, 1>>, <<INVALID>>, <<12>>, <<PUSH0>>}

\* loops that push until the stack overflows in the handler of opcode X
OverflowPrograms ==
     {<<PUSH0, JUMPDEST, X, X, PUSH1, 1, JUMP>> : X \in {PUSH0, DUP1, CALLVALUE, PC}}
  \cup {<<PUSH0, JUMPDEST, PUSH1, 0, PUSH1 + 1, 0, 0, PUSH1, 1, JUMP>>}

CallData == <<17, 34, 51>>

Envs(flags, values, gas) ==
  {[isStatic |-> s, isCreate |-> c, isDeploy |-> d, callValue |-> v,
    callData |-> CallData, depth |-> 1, nonce |-> 255, gasLimit |-> g] :
     s \in flags, c \in flags, d \in flags, v \in values, g \in gas}

\* the frames of the model: a program with the environment it runs in
Scenarios ==
       (StateChangePrograms \X Envs(BOOLEAN, {0}, {1000}))
  \cup (CallPrograms \X Envs(BOOLEAN, {0, 7}, {1000}))
  \cup (CopyPrograms \X Envs(BOOLEAN, {0}, {1000}))
  \cup (JumpPrograms \X Envs(BOOLEAN, {0}, {1000}))
  \cup (SubPrograms \X Envs({FALSE}, {0}, {1000}))
  \cup (MetricPrograms \X Envs(BOOLEAN, {0}, {60, 1000}))
  \cup (StackPrograms \X Envs(BOOLEAN, {7}, {1000}))
  \cup (OverflowPrograms \X Envs({FALSE}, {7}, {1000}))
  \cup (StorePrograms \X Envs({FALSE}, {0}, {1000}))
  \cup (WordPrograms \X Envs({FALSE}, {0}, {1000}))

\* results a sub-frame can return to the handler that invoked it
CallResults == [returnCode : {0, 1}, results : RetDatas]

CreateResults == [returnCode : {0, 4660}, results : {<<>>}]

(***************************************************************************)
(* Initial state: a fresh frame (interpreter constructor and run())        *)
(***************************************************************************)
\* a frame at its creation: program counter 0, empty memory, the words stk
\* on the stack
Frame(program, e, stk) ==
  /\ code = program
  /\ env = e
  /\ stack = stk
  /\ memory = <<>>
  /\ programCounter = 0
  /\ opCode = INVALID
  /\ returnStack = <<>>
  /\ messageGasLimit = Undefined
  /\ gasLeft = e.gasLimit
  /\ returnData = <<>>
  /\ vcm = [n \in CounterNames |-> 0]
  /\ status = "running"
  /\ trap = "none"
  /\ pending = NoPending
  /\ lastCounters = <<>>
  /\ events = <<>>
  /\ pre = [stack |-> stk, memory |-> <<>>, programCounter |-> 0,
            returnStack |-> <<>>, messageGasLimit |-> Undefined,
            gasLeft |-> e.gasLimit, vcm |-> [n \in CounterNames |-> 0]]
  /\ steps = 0
  /\ opts = NoOpts
  /\ execResult = NoResult

Init == \E sc \in Scenarios : Frame(sc[1], sc[2], <<>>)

(***************************************************************************)
(* The dispatch loop                                                       *)
(***************************************************************************)
\* opCode = code[pc], STOP past the end of the code
Fetch == IF programCounter < Len(code) THEN code[programCounter + 1] ELSE STOP

\* number of counters of the sequence cs recorded under name n
RECURSIVE CountOf(_, _)
CountOf(cs, n) ==
  IF cs = <<>> THEN 0
  ELSE CountOf(Tail(cs), n) + (IF Head(cs).name = n THEN 1 ELSE 0)

\* the run state a handler (or its resumption) leaves; already counts the
\* counters it recorded before
Commit(rs, already) ==
  /\ stack' = rs.stack
  /\ memory' = rs.memory
  /\ programCounter' = rs.programCounter
  /\ opCode' = rs.opCode
  /\ returnStack' = rs.returnStack
  /\ messageGasLimit' = rs.messageGasLimit
  /\ gasLeft' = rs.gasLeft
  /\ returnData' = rs.returnData
  /\ status' = rs.status
  /\ trap' = rs.trap
  /\ pending' = rs.pending
  /\ lastCounters' = rs.counters
  /\ events' = rs.events
  /\ vcm' = [n \in CounterNames |->
               vcm[n] + CountOf(SubSeq(rs.counters, already + 1, Len(rs.counters)), n)]
  /\ UNCHANGED <<code, env, opts, execResult>>

\* one step of the loop: the handler of the fetched opcode runs on start
Run(start, result) ==
  /\ status = "running"
  /\ steps < MaxSteps
  /\ Fetch = start.opCode
  /\ Commit(result, 0)
  /\ pre' = [stack |-> start.stack, memory |-> start.memory,
             programCounter |-> start.programCounter,
             returnStack |-> start.returnStack,
             messageGasLimit |-> start.messageGasLimit,
             gasLeft |-> start.gasLeft, vcm |-> vcm]
  /\ steps' = steps + 1

(***************************************************************************)
(* One action per handler                                                  *)
(***************************************************************************)
ExecSTOP ==
  /\ Fetch = STOP
  /\ Run(Start(STOP), HandlerSTOP(Start(STOP)))

ExecEXP ==
  /\ Fetch = EXP
  /\ Run(Start(EXP), HandlerEXP(Start(EXP)))

ExecADD ==
  /\ Fetch = ADD
  /\ Run(Start(ADD), HandlerADD(Start(ADD)))

ExecMUL ==
  /\ Fetch = MUL
  /\ Run(Start(MUL), HandlerMUL(Start(MUL)))

ExecSUB ==
  /\ Fetch = SUB
  /\ Run(Start(SUB), HandlerSUB(Start(SUB)))

ExecDIV ==
  /\ Fetch = DIV
  /\ Run(Start(DIV), HandlerDIV(Start(DIV)))

ExecSDIV ==
  /\ Fetch = SDIV
  /\ Run(Start(SDIV), HandlerSDIV(Start(SDIV)))

ExecMOD ==
  /\ Fetch = MOD
  /\ Run(Start(MOD), HandlerMOD(Start(MOD)))

ExecSMOD ==
  /\ Fetch = SMOD
  /\ Run(Start(SMOD), HandlerSMOD(Start(SMOD)))

ExecADDMOD ==
  /\ Fetch = ADDMOD
  /\ Run(Start(ADDMOD), HandlerADDMOD(Start(ADDMOD)))

ExecMULMOD ==
  /\ Fetch = MULMOD
  /\ Run(Start(MULMOD), HandlerMULMOD(Start(MULMOD)))

ExecSIGNEXTEND ==
  /\ Fetch = SIGNEXTEND
  /\ Run(Start(SIGNEXTEND), HandlerSIGNEXTEND(Start(SIGNEXTEND)))

ExecLT ==
  /\ Fetch = LT
  /\ Run(Start(LT), HandlerLT(Start(LT)))

ExecGT ==
  /\ Fetch = GT
  /\ Run(Start(GT), HandlerGT(Start(GT)))

ExecSLT ==
  /\ Fetch = SLT
  /\ Run(Start(SLT), HandlerSLT(Start(SLT)))

ExecSGT ==
  /\ Fetch = SGT
  /\ Run(Start(SGT), HandlerSGT(Start(SGT)))

ExecEQ ==
  /\ Fetch = EQ
  /\ Run(Start(EQ), HandlerEQ(Start(EQ)))

ExecISZERO ==
  /\ Fetch = ISZERO
  /\ Run(Start(ISZERO), HandlerISZERO(Start(ISZERO)))

ExecAND ==
  /\ Fetch = AND
  /\ Run(Start(AND), HandlerAND(Start(AND)))

ExecOR ==
  /\ Fetch = OR
  /\ Run(Start(OR), HandlerOR(Start(OR)))

ExecXOR ==
  /\ Fetch = XOR
  /\ Run(Start(XOR), HandlerXOR(Start(XOR)))

ExecNOT ==
  /\ Fetch = NOT
  /\ Run(Start(NOT), HandlerNOT(Start(NOT)))

ExecBYTE ==
  /\ Fetch = BYTE
  /\ Run(Start(BYTE), HandlerBYTE(Start(BYTE)))

ExecSHL ==
  /\ Fetch = SHL
  /\ Run(Start(SHL), HandlerSHL(Start(SHL)))

ExecSHR ==
  /\ Fetch = SHR
  /\ Run(Start(SHR), HandlerSHR(Start(SHR)))

ExecSAR ==
  /\ Fetch = SAR
  /\ Run(Start(SAR), HandlerSAR(Start(SAR)))

ExecCALLDATALOAD ==
  /\ Fetch = CALLDATALOAD
  /\ Run(Start(CALLDATALOAD), HandlerCALLDATALOAD(Start(CALLDATALOAD)))

ExecSHA3 ==
  /\ Fetch = SHA3
  /\ Run(Start(SHA3), HandlerSHA3(Start(SHA3)))

ExecCALLVALUE ==
  /\ Fetch = CALLVALUE
  /\ Run(Start(CALLVALUE), HandlerCALLVALUE(Start(CALLVALUE)))

ExecCALLDATACOPY ==
  /\ Fetch = CALLDATACOPY
  /\ Run(Start(CALLDATACOPY), HandlerCALLDATACOPY(Start(CALLDATACOPY)))

ExecCODECOPY ==
  /\ Fetch = CODECOPY
  /\ Run(Start(CODECOPY), HandlerCODECOPY(Start(CODECOPY)))

ExecEXTCODECOPY ==
  /\ Fetch = EXTCODECOPY
  /\ Run(Start(EXTCODECOPY), HandlerEXTCODECOPY(Start(EXTCODECOPY)))

ExecRETURNDATACOPY ==
  /\ Fetch = RETURNDATACOPY
  /\ Run(Start(RETURNDATACOPY), HandlerRETURNDATACOPY(Start(RETURNDATACOPY)))

ExecPOP ==
  /\ Fetch = POP
  /\ Run(Start(POP), HandlerPOP(Start(POP)))

ExecSSTORE ==
  /\ Fetch = SSTORE
  /\ Run(Start(SSTORE), HandlerSSTORE(Start(SSTORE)))

ExecJUMP ==
  /\ Fetch = JUMP
  /\ Run(Start(JUMP), HandlerJUMP(Start(JUMP)))

ExecJUMPI ==
  /\ Fetch = JUMPI
  /\ Run(Start(JUMPI), HandlerJUMPI(Start(JUMPI)))

ExecPC ==
  /\ Fetch = PC
  /\ Run(Start(PC), HandlerPC(Start(PC)))

ExecJUMPDEST ==
  /\ Fetch = JUMPDEST
  /\ Run(Start(JUMPDEST), HandlerJUMPDEST(Start(JUMPDEST)))

ExecBEGINSUB ==
  /\ Fetch = BEGINSUB
  /\ Run(Start(BEGINSUB), HandlerBEGINSUB(Start(BEGINSUB)))

ExecRETURNSUB ==
  /\ Fetch = RETURNSUB
  /\ Run(Start(RETURNSUB), HandlerRETURNSUB(Start(RETURNSUB)))

ExecJUMPSUB ==
  /\ Fetch = JUMPSUB
  /\ Run(Start(JUMPSUB), HandlerJUMPSUB(Start(JUMPSUB)))

ExecPUSH0 ==
  /\ Fetch = PUSH0
  /\ Run(Start(PUSH0), HandlerPUSH0(Start(PUSH0)))

ExecRETURN ==
  /\ Fetch = RETURN
  /\ Run(Start(RETURN), HandlerRETURN(Start(RETURN)))

ExecREVERT ==
  /\ Fetch = REVERT
  /\ Run(Start(REVERT), HandlerREVERT(Start(REVERT)))

ExecSELFDESTRUCT ==
  /\ Fetch = SELFDESTRUCT
  /\ Run(Start(SELFDESTRUCT), HandlerSELFDESTRUCT(Start(SELFDESTRUCT)))

ExecPUSH ==
  /\ Fetch \in PUSH1..PUSH32
  /\ Run(Start(Fetch), HandlerPUSH(Start(Fetch)))

ExecDUP ==
  /\ Fetch \in DUP1..DUP16
  /\ Run(Start(Fetch), HandlerDUP(Start(Fetch)))

ExecLOG ==
  /\ Fetch \in LOG0..LOG4
  /\ Run(Start(Fetch), HandlerLOG(Start(Fetch)))

\* the call and create families: the dispatcher's gas accounting has reserved
\* the gas limit of the sub-call on the run state before the handler runs
ExecCREATE ==
  /\ Fetch = CREATE
  /\ \E g \in GasLimits :
       Run(StartReserved(CREATE, g), HandlerCREATE(StartReserved(CREATE, g)))

ExecCREATE2 ==
  /\ Fetch = CREATE2
  /\ \E g \in GasLimits :
       Run(StartReserved(CREATE2, g), HandlerCREATE2(StartReserved(CREATE2, g)))

ExecCALL ==
  /\ Fetch = CALL
  /\ \E g \in GasLimits :
       Run(StartReserved(CALL, g), HandlerCALL(StartReserved(CALL, g)))

ExecCALLCODE ==
  /\ Fetch = CALLCODE
  /\ \E g \in GasLimits :
       Run(StartReserved(CALLCODE, g), HandlerCALLCODE(StartReserved(CALLCODE, g)))

ExecDELEGATECALL ==
  /\ Fetch = DELEGATECALL
  /\ \E g \in GasLimits :
       Run(StartReserved(DELEGATECALL, g), HandlerDELEGATECALL(StartReserved(DELEGATECALL, g)))

ExecSTATICCALL ==
  /\ Fetch = STATICCALL
  /\ \E g \in GasLimits :
       Run(StartReserved(STATICCALL, g), HandlerSTATICCALL(StartReserved(STATICCALL, g)))

\* the sub-frame has run to its end: the suspended handler resumes
SubCallReturns ==
  /\ status = "pending"
  /\ pending.op \in {CALL, CALLCODE, DELEGATECALL, STATICCALL}
  /\ \E ret \in CallResults : Commit(ResumeCall(Resumed, ret), Len(lastCounters))
  /\ UNCHANGED <<pre, steps>>

SubCreateReturns ==
  /\ status = "pending"
  /\ pending.op \in {CREATE, CREATE2}
  /\ \E ret \in CreateResults : Commit(ResumeCreate(Resumed, ret), Len(lastCounters))
  /\ UNCHANGED <<pre, steps>>

\* the call of a precompile: the result it returns and the counters it
\* records in the accumulator of the VM
Returns(out) ==
  /\ execResult = NoResult
  /\ execResult' = out.result
  /\ lastCounters' = out.counters
  /\ events' = out.calls
  /\ vcm' = [n \in CounterNames |-> vcm[n] + CountOf(out.counters, n)]
  /\ UNCHANGED <<code, env, stack, memory, programCounter, opCode, returnStack,
                 messageGasLimit, gasLeft, returnData, status, trap, pending,
                 pre, steps, opts>>

RunSha256 ==
  /\ opts.address = 2
  /\ Returns(Sha256Precompile(opts))

RunP256Verify ==
  /\ opts.address = 256
  /\ LET a == VerifyArguments(opts)
     IN  \E isValid \in verifyP256Signature(a[1], a[2], a[3], a[4], a[5]) :
           Returns(P256VerifyPrecompile(opts, isValid))

\* opcodes of the handlers map that the model has a handler for
Handled ==
  {ADD, MUL, SUB, DIV, SDIV, MOD, SMOD, ADDMOD, MULMOD, SIGNEXTEND, LT, GT, SLT,
   SGT, EQ, ISZERO, AND, OR, XOR, NOT, BYTE, SHL, SHR, SAR, CALLDATALOAD,
   STOP, EXP, SHA3, CALLVALUE, CALLDATACOPY, CODECOPY, EXTCODECOPY,
   RETURNDATACOPY, POP, SSTORE, JUMP, JUMPI, PC, JUMPDEST, BEGINSUB, RETURNSUB,
   JUMPSUB, PUSH0, CREATE, CALL, CALLCODE, RETURN, DELEGATECALL, CREATE2,
   STATICCALL, REVERT, SELFDESTRUCT}
  \cup (PUSH1..PUSH32) \cup (DUP1..DUP16) \cup (LOG0..LOG4)

\* an opcode without a handler traps INVALID_OPCODE
ExecInvalid ==
  /\ Fetch \notin Handled
  /\ Run(Start(Fetch), Trap(Start(Fetch), "INVALID_OPCODE"))

Next ==
  \/ ExecSTOP
  \/ ExecADD
  \/ ExecMUL
  \/ ExecSUB
  \/ ExecDIV
  \/ ExecSDIV
  \/ ExecMOD
  \/ ExecSMOD
  \/ ExecADDMOD
  \/ ExecMULMOD
  \/ ExecSIGNEXTEND
  \/ ExecLT
  \/ ExecGT
  \/ ExecSLT
  \/ ExecSGT
  \/ ExecEQ
  \/ ExecISZERO
  \/ ExecAND
  \/ ExecOR
  \/ ExecXOR
  \/ ExecNOT
  \/ ExecBYTE
  \/ ExecSHL
  \/ ExecSHR
  \/ ExecSAR
  \/ ExecCALLDATALOAD
  \/ ExecEXP
  \/ ExecSHA3
  \/ ExecCALLVALUE
  \/ ExecCALLDATACOPY
  \/ ExecCODECOPY
  \/ ExecEXTCODECOPY
  \/ ExecRETURNDATACOPY
  \/ ExecPOP
  \/ ExecSSTORE
  \/ ExecJUMP
  \/ ExecJUMPI
  \/ ExecPC
  \/ ExecJUMPDEST
  \/ ExecBEGINSUB
  \/ ExecRETURNSUB
  \/ ExecJUMPSUB
  \/ ExecPUSH0
  \/ ExecRETURN
  \/ ExecREVERT
  \/ ExecSELFDESTRUCT
  \/ ExecPUSH
  \/ ExecDUP
  \/ ExecLOG
  \/ ExecCREATE
  \/ ExecCREATE2
  \/ ExecCALL
  \/ ExecCALLCODE
  \/ ExecDELEGATECALL
  \/ ExecSTATICCALL
  \/ SubCallReturns
  \/ SubCreateReturns
  \/ ExecInvalid

Spec == Init /\ [][Next]_vars

(***************************************************************************)
(* Frames that start on a stack of 256-bit words                           *)
(***************************************************************************)
\* -2^255 in two's complement
MIN_I256 == shln(BN(1), 255)

\* 2^255 - 1
MAX_I256 == isubn(MIN_I256, 1)

\* -n in two's complement
Minus(n) == sub(TWO_POW256, BN(n))

\* two words of 32 significant bytes, bit 255 clear and set
PatternLow == BNFromBuffer([i \in 1..32 |-> (i * 37 + 11) % 256])

PatternHigh == BNFromBuffer([i \in 1..32 |-> 255 - ((i * 29) % 256)])

\* 2^128 + 1
HalfWord == iaddn(shln(BN(1), 128), 1)

\* the environment of the frames below
WordEnv(gas) ==
  [isStatic |-> FALSE, isCreate |-> FALSE, isDeploy |-> FALSE, callValue |-> 0,
   callData |-> CallData, depth |-> 1, nonce |-> 255, gasLimit |-> gas]

\* operands of the division family
DivWords ==
  {BN(0), BN(1), BN(2), BN(7), MAX_INTEGER, Minus(7), MIN_I256, MAX_I256,
   PatternLow}

\* operands and moduli of ADDMOD and MULMOD
ModOperands == {BN(1), MAX_INTEGER, MIN_I256, PatternHigh}

Moduli == {BN(0), BN(1), BN(7), MAX_INTEGER, PatternLow, HalfWord}

DivInit ==
  \/ \E op \in {DIV, SDIV, MOD, SMOD}, a \in DivWords, b \in DivWords :
       Frame(<<op>>, WordEnv(1000), <<b, a>>)
  \/ \E op \in {ADDMOD, MULMOD}, a \in ModOperands, b \in ModOperands, c \in Moduli :
       Frame(<<op>>, WordEnv(1000), <<c, b, a>>)

DivNext ==
  \/ ExecDIV
  \/ ExecSDIV
  \/ ExecMOD
  \/ ExecSMOD
  \/ ExecADDMOD
  \/ ExecMULMOD
  \/ ExecSTOP

DivSpec == DivInit /\ [][DivNext]_vars

\* operands of ADD, SUB and MUL
AddWords ==
  {BN(0), BN(1), BN(2), MAX_INTEGER, MIN_I256, MAX_I256, PatternLow, PatternHigh,
   HalfWord}

\* one opcode on two operands, and SUB(0, u) followed by the ADD of u
AddInit ==
  \/ \E op \in {ADD, SUB, MUL}, a \in AddWords, b \in AddWords :
       Frame(<<op>>, WordEnv(1000), <<b, a>>)
  \/ \E u \in AddWords : Frame(<<SUB, ADD>>, WordEnv(1000), <<u, u, BN(0)>>)

AddNext ==
  \/ ExecADD
  \/ ExecSUB
  \/ ExecMUL
  \/ ExecSTOP

AddSpec == AddInit /\ [][AddNext]_vars

\* values of SIGNEXTEND and of the shifts
BitWords ==
  {BN(0), BN(1), BN(127), BN(128), BN(32768), MAX_INTEGER, MIN_I256, MAX_I256,
   PatternLow, PatternHigh}

\* byte positions of SIGNEXTEND that fit the immediate of PUSH1
SmallBytes == {0, 1, 15, 30, 31}

\* shift amounts below, at and above 256
Shifts ==
  {BN(0), BN(1), BN(7), BN(8), BN(9), BN(128), BN(255), BN(256), BN(257),
   HalfWord, MAX_INTEGER}

\* SIGNEXTEND alone and applied twice with the same byte position, and one
\* shift
BitInit ==
  \/ \E k \in {BN(32), BN(256), MIN_I256, MAX_INTEGER}, v \in BitWords :
       Frame(<<SIGNEXTEND>>, WordEnv(1000), <<v, k>>)
  \/ \E k \in SmallBytes, v \in BitWords :
       Frame(<<SIGNEXTEND, PUSH1, k, SIGNEXTEND>>, WordEnv(1000), <<v, BN(k)>>)
  \/ \E op \in {SHL, SHR, SAR}, a \in Shifts, b \in BitWords :
       Frame(<<op>>, WordEnv(1000), <<b, a>>)

BitNext ==
  \/ ExecSIGNEXTEND
  \/ ExecPUSH
  \/ ExecSHL
  \/ ExecSHR
  \/ ExecSAR
  \/ ExecSTOP

BitSpec == BitInit /\ [][BitNext]_vars

\* bases of EXP: 0, 1, even and odd words
ExpBases ==
  {BN(0), BN(1), BN(2), BN(3), BN(255), BN(256), MAX_INTEGER, MIN_I256, PatternLow,
   PatternHigh}

\* exponents of one byte
SmallExponents == {0, 1, 2, 3, 5, 9}

\* 2^254, the exponent of the group of the odd words
GroupExponent == shln(BN(1), 254)

\* EXP on small exponents, on exponents of up to 32 bytes, and with gas for
\* one exponent byte only
ExpInit ==
  \/ \E base \in ExpBases, e \in SmallExponents :
       Frame(<<EXP>>, WordEnv(2000), <<BN(e), base>>)
  \/ \E e \in {8, 255, 256, 257} : Frame(<<EXP>>, WordEnv(2000), <<BN(e), BN(2)>>)
  \/ \E base \in {BN(3), PatternLow}, e \in {GroupExponent, iaddn(GroupExponent, 1)} :
       Frame(<<EXP>>, WordEnv(2000), <<e, base>>)
  \/ \E base \in {BN(0), BN(2), MIN_I256}, e \in {BN(256), HalfWord, MAX_INTEGER} :
       Frame(<<EXP>>, WordEnv(2000), <<e, base>>)
  \/ Frame(<<EXP>>, WordEnv(2000), <<MAX_INTEGER, BN(3)>>)
  \/ \E base \in {BN(0), BN(2)}, e \in {BN(0), BN(1), BN(256), MAX_INTEGER} :
       Frame(<<EXP>>, WordEnv(60), <<e, base>>)

ExpNext ==
  \/ ExecEXP
  \/ ExecSTOP

ExpSpec == ExpInit /\ [][ExpNext]_vars

\* the words at the ends of the unsigned and of the signed range
EdgeWords == {BN(0), BN(1), BN(255), MAX_INTEGER, MIN_I256, MAX_I256, PatternHigh}

BinaryOpcodes ==
  {ADD, MUL, SUB, DIV, SDIV, MOD, SMOD, SIGNEXTEND, LT, GT, SLT, SGT, EQ, AND, OR,
   XOR, BYTE, SHL, SHR, SAR}

\* every opcode of WordOpcodes on words of EdgeWords, CALLDATALOAD inside,
\* across and beyond the call data, PUSHn with its immediate inside and
\* across the end of the code, and two opcodes in a row
WordInit ==
  \/ \E op \in BinaryOpcodes, a \in EdgeWords, b \in EdgeWords :
       Frame(<<op>>, WordEnv(2000), <<b, a>>)
  \/ \E base \in EdgeWords, e \in {BN(0), BN(1), BN(2), BN(255), GroupExponent} :
       Frame(<<EXP>>, WordEnv(2000), <<e, base>>)
  \/ \E op \in {ISZERO, NOT}, a \in EdgeWords : Frame(<<op>>, WordEnv(2000), <<a>>)
  \/ \E op \in {ADDMOD, MULMOD}, a \in {BN(1), MAX_INTEGER, MIN_I256},
         b \in {BN(1), MAX_INTEGER, MIN_I256},
         c \in {BN(0), BN(1), BN(7), MAX_INTEGER, PatternHigh} :
       Frame(<<op>>, WordEnv(2000), <<c, b, a>>)
  \/ \E pos \in {BN(0), BN(1), BN(3), BN(4), BN(31), MAX_INTEGER} :
       Frame(<<CALLDATALOAD>>, WordEnv(2000), <<pos>>)
  \/ \E program \in {PushBytes([i \in 1..32 |-> 255]), PushBytes(<<0, 1>>),
                       <<PUSH32, 1>>, <<PUSH1>>, PushBytes(<<255>>)} :
       Frame(program, WordEnv(2000), <<>>)
  \/ \E first \in {SUB, SHL, SIGNEXTEND}, second \in {MUL, ADD, SAR},
         a \in {MAX_INTEGER, MIN_I256, BN(1)}, b \in {MAX_INTEGER, MIN_I256, BN(1)},
         c \in {MAX_INTEGER, PatternHigh} :
       Frame(<<first, second>>, WordEnv(2000), <<c, b, a>>)

WordNext ==
  \/ ExecADD
  \/ ExecMUL
  \/ ExecSUB
  \/ ExecDIV
  \/ ExecSDIV
  \/ ExecMOD
  \/ ExecSMOD
  \/ ExecADDMOD
  \/ ExecMULMOD
  \/ ExecEXP
  \/ ExecSIGNEXTEND
  \/ ExecLT
  \/ ExecGT
  \/ ExecSLT
  \/ ExecSGT
  \/ ExecEQ
  \/ ExecISZERO
  \/ ExecAND
  \/ ExecOR
  \/ ExecXOR
  \/ ExecNOT
  \/ ExecBYTE
  \/ ExecSHL
  \/ ExecSHR
  \/ ExecSAR
  \/ ExecCALLDATALOAD
  \/ ExecPUSH
  \/ ExecSTOP

WordSpec == WordInit /\ [][WordNext]_vars

\* immediates of the PUSH family: k bytes that read differently in the two
\* byte orders, with a leading zero byte or without
Immediate(k, lead) == [i \in 1..k |-> IF i = 1 THEN lead ELSE (i * 37 + 200) % 256]

\* PUSHk for every k, at position 0 or behind a JUMPDEST, with its whole
\* immediate or with the code ending cut bytes before the immediate does
PushInit ==
  \E k \in 1..32, lead \in {0, 237}, prefix \in {<<>>, <<JUMPDEST>>}, cut \in {0, 1} :
    Frame(prefix \o <<PUSH0 + k>> \o SubSeq(Immediate(k, lead), 1, k - cut),
          WordEnv(2000), <<>>)

PushNext ==
  \/ ExecJUMPDEST
  \/ ExecPUSH
  \/ ExecSTOP

PushSpec == PushInit /\ [][PushNext]_vars

\* words under a call opcode, bottom first: the top eight hold different
\* numbers, so that the operand a handler takes shows in what it passes on
CallWords(third, last) ==
  <<BN(11), BN(last), BN(2), BN(1), BN(0), BN(third), BN(1), BN(50)>>

\* one opcode of the call family on the top height words, in a frame with
\* the call value v
CallInit ==
  \E op \in {CALL, CALLCODE, DELEGATECALL, STATICCALL}, height \in 5..8,
     third \in {0, 4}, last \in {0, 3},
     e \in Envs(BOOLEAN, {0, 9}, {1000}) :
    Frame(<<op>>, e, SubSeq(CallWords(third, last), 9 - height, 8))

CallNext ==
  \/ ExecCALL
  \/ ExecCALLCODE
  \/ ExecDELEGATECALL
  \/ ExecSTATICCALL
  \/ SubCallReturns
  \/ ExecSTOP

CallSpec == CallInit /\ [][CallNext]_vars

\* call data of n non-zero bytes
CallDataOf(n) == [i \in 1..n |-> ((i * 53) % 255) + 1]

\* sizes of the call data: empty, shorter than a word, a word, longer
CallDataSizes == {0, 1, 3, 31, 32, 33, 40}

\* positions CALLDATALOAD reads at: inside the call data, at its end, beyond
\* it, and beyond what a JavaScript number holds
LoadPositions == {BN(p) : p \in 0..42} \cup {MAX_INTEGER, PatternHigh}

CallDataInit ==
  \E n \in CallDataSizes, pos \in LoadPositions :
    Frame(<<CALLDATALOAD>>, [WordEnv(2000) EXCEPT !.callData = CallDataOf(n)], <<pos>>)

CallDataNext ==
  \/ ExecCALLDATALOAD
  \/ ExecSTOP

CallDataSpec == CallDataInit /\ [][CallDataNext]_vars

\* values of the chain configuration's gasPrices parameters
ChainParams ==
  {[sha256 |-> 60, sha256Word |-> 12, p256verify |-> 3450],
   [sha256 |-> 7, sha256Word |-> 3, p256verify |-> 20]}

\* input of the SHA-256 precompile: empty, part of a word, whole words, more
HashInputs == {[i \in 1..n |-> (i * 7) % 256] : n \in {0, 1, 31, 32, 33, 64, 65}}

\* gas limits around the gas the inputs cost
HashGasLimits == {0, 6, 7, 9, 10, 11, 13, 14, 16, 59, 60, 71, 72, 73, 83, 84, 85, 95, 96, 97}

\* a precompile call in a VM that runs no frame
PrecompileCall(o) ==
  /\ code = <<>>
  /\ env = WordEnv(0)
  /\ stack = <<>>
  /\ memory = <<>>
  /\ programCounter = 0
  /\ opCode = INVALID
  /\ returnStack = <<>>
  /\ messageGasLimit = Undefined
  /\ gasLeft = 0
  /\ returnData = <<>>
  /\ vcm = [n \in CounterNames |-> 0]
  /\ status = "halted"
  /\ trap = "none"
  /\ pending = NoPending
  /\ lastCounters = <<>>
  /\ events = <<>>
  /\ pre = [stack |-> <<>>, memory |-> <<>>, programCounter |-> 0,
            returnStack |-> <<>>, messageGasLimit |-> Undefined,
            gasLeft |-> 0, vcm |-> [n \in CounterNames |-> 0]]
  /\ steps = 0
  /\ opts = o
  /\ execResult = NoResult

Sha256Init ==
  \E data \in HashInputs, gasLimit \in HashGasLimits, prices \in ChainParams :
    PrecompileCall([address |-> 2, data |-> data, gasLimit |-> gasLimit,
                    gasPrices |-> prices])

Sha256Next == RunSha256

Sha256Spec == Sha256Init /\ [][Sha256Next]_vars

\* the five values of the fixture in every order, hash | r | s | x | y
Layouts == {f \in [1..5 -> 1..5] : \A i, j \in 1..5 : f[i] = f[j] => i = j}

\* input of the P256VERIFY precompile: five fields in some order, whole,
\* without its last field, or followed by one more byte
P256Inputs ==
  {Field(f[1]) \o Field(f[2]) \o Field(f[3]) \o Field(f[4]) \o Field(f[5]) \o more :
     f \in Layouts, more \in {<<>>, <<9>>}}
  \cup {Field(f[1]) \o Field(f[2]) \o Field(f[3]) \o Field(f[4]) : f \in Layouts}

\* gas limits around the two prices
P256GasLimits == {0, 19, 20, 21, 3449, 3450, 3451}

P256Init ==
  \E data \in P256Inputs, gasLimit \in P256GasLimits, prices \in ChainParams :
    PrecompileCall([address |-> 256, data |-> data, gasLimit |-> gasLimit,
                    gasPrices |-> prices])

P256Next == RunP256Verify

P256Spec == P256Init /\ [][P256Next]_vars

(***************************************************************************)
(* Vocabulary of the properties                                            *)
(***************************************************************************)
CallFamily == {CALL, CALLCODE, DELEGATECALL, STATICCALL}

CreateFamily == {CREATE, CREATE2}

LogFamily == LOG0..LOG4

PushFamily == PUSH1..PUSH32

\* a handler has run (or is suspended at its sub-call)
Executed == steps > 0

\* the last handler ran to its end without a trap
Completed == Executed /\ status = "running"

\* the last handler trapped with err
Trapped(err) == Executed /\ status = "halted" /\ trap = err

\* positions of the effects with tag k in the current handler execution
Positions(k) == {i \in 1..Len(events) : events[i].k = k}

\* tags of the environment sub-calls
Invocations == {"create", "create2", "call", "callCode", "callDelegate", "callStatic"}

InvokePositions == {i \in 1..Len(events) : events[i].k \in Invocations}

\* tags of the environment calls that change the world state
SideEffects == {"storageStore", "log", "selfDestruct"} \cup Invocations

\* operands the handler of opcode op pops
Operands(op) ==
  IF op \in {CALL, CALLCODE} THEN 7
  ELSE IF op \in {DELEGATECALL, STATICCALL} THEN 6
  ELSE IF op = CREATE2 THEN 4
  ELSE IF op = CREATE THEN 3
  ELSE IF op \in LogFamily THEN 2 + (op - LOG0)
  ELSE IF op \in {SSTORE, SHA3, EXP, RETURN, REVERT, JUMPI} THEN 2
  ELSE IF op \in {SELFDESTRUCT, JUMP, JUMPSUB, POP} THEN 1
  ELSE 0

\* the last handler started with all its operands on the stack
HadOperands == Executed /\ Len(pre.stack) >= Operands(opCode)

(***************************************************************************)
(* C1                                                                      *)
(***************************************************************************)
\* the opcode the last handler ran changes state: SSTORE, LOG0..LOG4, CREATE,
\* CREATE2, SELFDESTRUCT, or CALL with a non-zero value operand
StateChanging ==
  \/ opCode \in {SSTORE, CREATE, CREATE2, SELFDESTRUCT} \cup LogFamily
  \/ opCode = CALL /\ Peek(pre.stack, 3) # 0

\* C1: in a static frame the handler of a state-changing opcode traps
\* STATIC_STATE_CHANGE and never reaches its environment side effect.
C1_StaticTraps ==
  (HadOperands /\ env.isStatic /\ StateChanging)
    => /\ Trapped("STATIC_STATE_CHANGE")
       /\ \A i \in 1..Len(events) : events[i].k \notin SideEffects

(***************************************************************************)
(* C2                                                                      *)
(***************************************************************************)
ControlOpcodes == {JUMP, JUMPI, JUMPDEST, BEGINSUB, RETURNSUB, JUMPSUB}

\* C2: a handler that completes without a trap has recorded exactly one
\* counter, and exactly two (its own, then _processContractCall) in the call
\* and create families.
C2_CountersPerHandler ==
  (Completed /\ opCode \notin ControlOpcodes)
    => IF opCode \in CallFamily \cup CreateFamily
       THEN /\ Len(lastCounters) = 2
            /\ lastCounters[1].name # "_processContractCall"
            /\ lastCounters[2].name = "_processContractCall"
       ELSE Len(lastCounters) = 1

(***************************************************************************)
(* C3                                                                      *)
(***************************************************************************)
\* C3 as stated: every recorded counter, _processContractCall included,
\* carries the isCreate and isDeploy flags of the frame environment.
C3_AllCountersCarryEnvFlags ==
  \A i \in 1..Len(lastCounters) :
    /\ lastCounters[i].isCreate = env.isCreate
    /\ lastCounters[i].isDeploy = env.isDeploy

\* C3 amended: every counter but _processContractCall carries the flags of
\* the frame environment; _processContractCall describes the sub-frame:
\* isDeploy false, isCreate true exactly for CREATE, isCreate2 true exactly
\* for CREATE2.
C3_CountersCarryFlags ==
  \A i \in 1..Len(lastCounters) :
    IF lastCounters[i].name = "_processContractCall"
    THEN /\ lastCounters[i].isDeploy = FALSE
         /\ lastCounters[i].isCreate = (opCode = CREATE)
         /\ lastCounters[i].isCreate2 = (opCode = CREATE2)
    ELSE /\ lastCounters[i].isCreate = env.isCreate
         /\ lastCounters[i].isDeploy = env.isDeploy

\* a CALL in a deployment frame has recorded both of its counters
C3_Witness ==
  /\ Completed /\ opCode = CALL /\ env.isDeploy /\ env.isCreate
  /\ Len(lastCounters) = 2
  /\ lastCounters[1].isDeploy /\ ~lastCounters[2].isDeploy

(***************************************************************************)
(* C4                                                                      *)
(***************************************************************************)
\* opcodes whose handler pushes without popping
Pushers == {PUSH0, CALLVALUE, PC} \cup PushFamily \cup (DUP1..DUP16)

\* the last handler was to push onto a full stack
PushOnFullStack ==
  /\ Executed
  /\ opCode \in Pushers
  /\ Len(pre.stack) = MaxHeight

\* C4 as stated: the stack depth stays within 0..1024, and a push that would
\* exceed it traps with stack, program counter, memory and counter
\* accumulator as they were when the handler started.
C4_OverflowLeavesRunState ==
  /\ Len(stack) \in 0..MaxHeight
  /\ PushOnFullStack
       => /\ Trapped("STACK_OVERFLOW")
          /\ stack = pre.stack
          /\ memory = pre.memory
          /\ programCounter = pre.programCounter
          /\ vcm = pre.vcm

\* C4 amended: the stack depth stays within 0..1024, and a push that would
\* exceed it traps with stack and memory as they were when the handler
\* started, after the handler has recorded its counter and, for PUSHn,
\* advanced the program counter by n.
C4_OverflowTraps ==
  /\ Len(stack) \in 0..MaxHeight
  /\ PushOnFullStack
       => /\ Trapped("STACK_OVERFLOW")
          /\ stack = pre.stack
          /\ memory = pre.memory
          /\ programCounter =
               pre.programCounter + (IF opCode \in PushFamily THEN opCode - PUSH0 ELSE 0)
          /\ Len(lastCounters) = 1
          /\ vcm = [pre.vcm EXCEPT ![lastCounters[1].name] = @ + 1]

\* PUSH2 has trapped on a full stack
C4_Witness ==
  /\ PushOnFullStack
  /\ opCode = PUSH1 + 1
  /\ Trapped("STACK_OVERFLOW")
  /\ Len(stack) = MaxHeight

(***************************************************************************)
(* C5                                                                      *)
(***************************************************************************)
\* the one position of a set of positions
ThePosition(S) == CHOOSE i \in S : TRUE

\* operands of the call the last handler ran, read off the stack it started on
CallInOffset == Peek(pre.stack, IF opCode \in {CALL, CALLCODE} THEN 4 ELSE 3)

CallInLength == Peek(pre.stack, IF opCode \in {CALL, CALLCODE} THEN 5 ELSE 4)

CallOutOffset == Peek(pre.stack, IF opCode \in {CALL, CALLCODE} THEN 6 ELSE 5)

CallOutLength == Peek(pre.stack, IF opCode \in {CALL, CALLCODE} THEN 7 ELSE 6)

\* the stack the handler started on, without the operands it pops
StackBelowOperands == SubSeq(pre.stack, 1, Len(pre.stack) - Operands(opCode))

\* the byte of the memory the handler started on at 0-based position i
PreMemoryByte(i) == IF i < Len(pre.memory) THEN pre.memory[i + 1] ELSE 0

\* C5: in the call family the input is read from memory, then the sub-call is
\* invoked and returns, then at most outLength bytes of its return data are
\* written at outOffset, then the status word is pushed; while the sub-frame
\* runs the caller's memory is unwritten and no status word is on the stack.
C5_CallOrder ==
  /\ (status = "pending" /\ pending.op \in CallFamily)
       => /\ memory = pre.memory
          /\ stack = StackBelowOperands
          /\ Positions("memWrite") = {}
          /\ Positions("push") = {}
          /\ Positions("return") = {}
          /\ InvokePositions = {Len(events)}
          /\ \A r \in Positions("memRead") :
               events[r].a = CallInOffset /\ events[r].b = CallInLength
          /\ CallInLength # 0 => Positions("memRead") # {}
          /\ Len(pending.data) = CallInLength
          /\ \A j \in 1..CallInLength :
               pending.data[j] = PreMemoryByte(CallInOffset + j - 1)
  /\ (Completed /\ opCode \in CallFamily)
       => /\ Cardinality(InvokePositions) = 1
          /\ Cardinality(Positions("return")) = 1
          /\ Positions("push") = {Len(events)}
          /\ ThePosition(InvokePositions) < ThePosition(Positions("return"))
          /\ \A r \in Positions("memRead") : r < ThePosition(InvokePositions)
          /\ \A w \in Positions("memWrite") :
               ThePosition(Positions("return")) < w /\ w < Len(events)
          /\ stack = Append(StackBelowOperands,
                            BN(events[ThePosition(Positions("return"))].a))
          /\ LET written == Min(CallOutLength, Len(returnData))
             IN  \A i \in 0..(Len(memory) - 1) :
                   memory[i + 1] =
                     IF i >= CallOutOffset /\ i < CallOutOffset + written
                     THEN returnData[i - CallOutOffset + 1]
                     ELSE PreMemoryByte(i)

\* a CALL has completed: three bytes were returned, the first two are in the
\* caller's memory and the status word 1 is on top of the stack
C5_Witness ==
  /\ Completed /\ opCode = CALL
  /\ Len(returnData) = 3 /\ CallOutLength = 2
  /\ memory # pre.memory
  /\ memory[CallOutOffset + 1] = returnData[1]
  /\ Peek(stack, 1) = 1

(***************************************************************************)
(* C6                                                                      *)
(***************************************************************************)
\* C6: a call or create handler that reaches its sub-call passes the reserved
\* messageGasLimit as the gas limit and has cleared the slot before the
\* sub-call is invoked: the slot is empty while the sub-frame runs and after
\* the handler completes.
C6_GasLimitConsumed ==
  /\ status = "pending"
       => /\ pre.messageGasLimit \in GasLimits
          /\ pending.gasLimit = pre.messageGasLimit
          /\ Cardinality(InvokePositions) = 1
          /\ events[ThePosition(InvokePositions)].a = pre.messageGasLimit
          /\ messageGasLimit = Undefined
  /\ (Completed /\ opCode \in CallFamily \cup CreateFamily)
       => /\ messageGasLimit = Undefined
          /\ Cardinality(InvokePositions) = 1

\* the sub-frame of a CREATE runs with the reserved gas limit 2
C6_Witness ==
  /\ status = "pending" /\ pending.op = CREATE
  /\ pre.messageGasLimit = 2 /\ pending.gasLimit = 2
  /\ messageGasLimit = Undefined

(***************************************************************************)
(* C7                                                                      *)
(***************************************************************************)
\* dest is at most the code size and marked in the jump-destination bitmap
JumpAllowed(dest) == dest <= Len(code) /\ dest \in ValidJumps(code)

\* the outcome of a jump to dest that the claim requires
JumpOutcome(dest) ==
  IF JumpAllowed(dest)
  THEN Completed /\ programCounter = dest
  ELSE Trapped("INVALID_JUMP") /\ programCounter = pre.programCounter

\* C7: JUMP sets the program counter to dest only for an allowed dest and
\* otherwise traps INVALID_JUMP with the program counter unchanged; JUMPI does
\* the same when cond # 0 and falls through, without a trap, when cond = 0.
C7_Jumps ==
  /\ (HadOperands /\ opCode = JUMP) => JumpOutcome(Peek(pre.stack, 1))
  /\ (HadOperands /\ opCode = JUMPI)
       => IF Peek(pre.stack, 2) # 0
          THEN JumpOutcome(Peek(pre.stack, 1))
          ELSE Completed /\ programCounter = pre.programCounter

\* a JUMP has trapped on a JUMPDEST byte that is the data of a PUSH
C7_Witness ==
  /\ HadOperands /\ opCode = JUMP
  /\ Trapped("INVALID_JUMP")
  /\ Peek(pre.stack, 1) < Len(code)
  /\ code[Peek(pre.stack, 1) + 1] = JUMPDEST

(***************************************************************************)
(* C8                                                                      *)
(***************************************************************************)
\* C8: JUMPSUB pushes the position after the JUMPSUB opcode onto the return
\* substack and continues at dest + 1; RETURNSUB pops the return substack and
\* continues at the popped position; every entry of the return substack is
\* the position following a JUMPSUB, so a matched RETURNSUB resumes there with
\* the return substack as deep as before the JUMPSUB.
C8_Subroutines ==
  /\ (Completed /\ opCode = JUMPSUB)
       => /\ Peek(pre.stack, 1) \in ValidJumpSubs(code)
          /\ code[pre.programCounter] = JUMPSUB
          /\ returnStack = Append(pre.returnStack, BN(pre.programCounter))
          /\ programCounter = Peek(pre.stack, 1) + 1
  /\ (Completed /\ opCode = RETURNSUB)
       => /\ pre.returnStack # <<>>
          /\ programCounter = Peek(pre.returnStack, 1)
          /\ returnStack = SubSeq(pre.returnStack, 1, Len(pre.returnStack) - 1)
  /\ \A i \in 1..Len(returnStack) :
       toNumber(returnStack[i]) >= 1 /\ code[toNumber(returnStack[i])] = JUMPSUB

\* the inner RETURNSUB of two nested sub-procedures has returned
C8_Witness ==
  /\ Completed /\ opCode = RETURNSUB
  /\ Len(pre.returnStack) = 2 /\ Len(returnStack) = 1
  /\ code[programCounter] = JUMPSUB

(***************************************************************************)
(* C9                                                                      *)
(***************************************************************************)
\* C9: RETURNSUB on an empty return substack traps INVALID_RETURNSUB with the
\* program counter unchanged; BEGINSUB always traps INVALID_BEGINSUB; JUMPSUB
\* to a destination beyond the code size or not marked as a sub-procedure
\* start traps INVALID_JUMPSUB with return substack and program counter
\* unchanged.
C9_SubroutineTraps ==
  /\ (Executed /\ opCode = RETURNSUB /\ pre.returnStack = <<>>)
       => /\ Trapped("INVALID_RETURNSUB")
          /\ programCounter = pre.programCounter
  /\ (Executed /\ opCode = BEGINSUB) => Trapped("INVALID_BEGINSUB")
  /\ (/\ HadOperands /\ opCode = JUMPSUB
      /\ \/ Peek(pre.stack, 1) > Len(code)
         \/ Peek(pre.stack, 1) \notin ValidJumpSubs(code))
       => /\ Trapped("INVALID_JUMPSUB")
          /\ returnStack = pre.returnStack
          /\ programCounter = pre.programCounter

\* a RETURNSUB has trapped on the empty return substack
C9_Witness ==
  /\ Executed /\ opCode = RETURNSUB /\ pre.returnStack = <<>>
  /\ Trapped("INVALID_RETURNSUB")

(***************************************************************************)
(* C10                                                                     *)
(***************************************************************************)
MetricOpcodes == {SHA3, EXP, RETURN, REVERT} \cup LogFamily

\* the metric the counter c of the last handler carries
RecordedMetric(c) ==
  IF opCode = EXP THEN c.bytesExponentLength
  ELSE IF opCode = RETURN THEN c.returnLength
  ELSE IF opCode = REVERT THEN c.revertSize
  ELSE c.inputSize

\* the metric of operand v: v itself, for EXP the number of bytes of the
\* big-endian byte array of v
MetricOf(v) == IF opCode = EXP THEN Len(ToBytesBE(v)) ELSE v

\* C10: SHA3, EXP, LOG, RETURN and REVERT pop before they record their
\* counter (a stack underflow leaves no counter), the recorded metric is
\* computed from the second popped operand, and EXP records it also when the
\* exponent is 0, where it pushes 1 and charges no gas.
C10_PopsBeforeCounter ==
  (Executed /\ opCode \in MetricOpcodes)
    => IF Len(pre.stack) < 2
       THEN Trapped("STACK_UNDERFLOW") /\ lastCounters = <<>>
       ELSE /\ Len(lastCounters) = 1
            /\ events[1].k = "pop" /\ events[1].a = 2
            /\ events[2].k = "vcm"
            /\ RecordedMetric(lastCounters[1]) = MetricOf(Peek(pre.stack, 2))
            /\ (opCode = EXP /\ Peek(pre.stack, 2) = 0)
                 => /\ Completed
                    /\ stack = Append(SubSeq(pre.stack, 1, Len(pre.stack) - 2), BN(1))
                    /\ gasLeft = pre.gasLeft

\* EXP with exponent 0 has completed with its counter recorded
C10_Witness ==
  /\ Completed /\ opCode = EXP
  /\ Len(pre.stack) >= 2 /\ Peek(pre.stack, 2) = 0
  /\ Len(lastCounters) = 1
  /\ lastCounters[1].bytesExponentLength = 1

(***************************************************************************)
(* C11                                                                     *)
(***************************************************************************)
\* EXP has run on two operands with a non-zero exponent and less gas than
\* expByte * byteLength(exponent)
ExpOutOfGas ==
  /\ Executed /\ opCode = EXP /\ Len(pre.stack) >= 2
  /\ ~isZero(Word(pre.stack, 2))
  /\ pre.gasLeft < ExpByteGas * byteLength(Word(pre.stack, 2))

\* C11: the counters a handler recorded are in the totals also when the
\* handler has trapped afterwards; EXP with a non-zero exponent and too
\* little gas traps OUT_OF_GAS in useGas with its opExp counter recorded,
\* both operands popped and nothing pushed.
C11_CounterSurvivesTrap ==
  /\ (Executed /\ status = "halted" /\ pending = NoPending)
       => \A n \in CounterNames : vcm[n] = pre.vcm[n] + CountOf(lastCounters, n)
  /\ ExpOutOfGas
       => /\ Trapped("OUT_OF_GAS")
          /\ Len(lastCounters) = 1 /\ lastCounters[1].name = "opExp"
          /\ vcm.opExp = pre.vcm.opExp + 1
          /\ stack = SubSeq(pre.stack, 1, Len(pre.stack) - 2)
          /\ Positions("push") = {}
          /\ Len(events) = 3
          /\ events[1] = Ev("pop", 2, 0)
          /\ events[2] = Ev("vcm", "opExp", 0)
          /\ events[3].k = "useGas"

\* EXP has trapped for gas on a two-byte exponent and a non-zero base
C11_Witness ==
  /\ ExpOutOfGas /\ Trapped("OUT_OF_GAS")
  /\ byteLength(Word(pre.stack, 2)) = 2 /\ ~isZero(Word(pre.stack, 1))
  /\ vcm.opExp = 1

(***************************************************************************)
(* C12                                                                     *)
(***************************************************************************)
\* SSTORE has run on a key and a value
Stored == Executed /\ opCode = SSTORE /\ Len(pre.stack) >= 2

\* the arguments of the storageStore call of the last handler
StoredKey == events[ThePosition(Positions("storageStore"))].a

StoredValue == events[ThePosition(Positions("storageStore"))].b

\* C12: SSTORE passes the key as exactly 32 big-endian bytes and the value
\* in its shortest big-endian form: empty for 0, else the bytes of val
\* without a leading zero byte, 1 to 32 of them.
C12_SStoreBytes ==
  Stored
    => /\ Cardinality(Positions("storageStore")) = 1
       /\ Len(StoredKey) = 32
       /\ BNFromBuffer(StoredKey) = Word(pre.stack, 1)
       /\ isZero(Word(pre.stack, 2)) => StoredValue = <<>>
       /\ ~isZero(Word(pre.stack, 2))
            => /\ Len(StoredValue) \in 1..32
               /\ Len(StoredValue) = byteLength(Word(pre.stack, 2))
               /\ StoredValue[1] # 0
               /\ BNFromBuffer(StoredValue) = Word(pre.stack, 2)

\* the value 1 was stored as the single byte 1 under a key of 32
\* significant bytes
C12_Witness ==
  /\ Stored /\ Completed
  /\ Word(pre.stack, 2) = BN(1) /\ StoredValue = <<1>>
  /\ byteLength(Word(pre.stack, 1)) = 32 /\ StoredKey = [i \in 1..32 |-> 255]

(***************************************************************************)
(* C13                                                                     *)
(***************************************************************************)
\* w is a BN in its normal form between 0 and 2^256 - 1
IsWord(w) ==
  /\ Len(w) \in 1..33
  /\ Head(w) = 0
  /\ \A i \in 2..Len(w) : w[i] \in 0..255
  /\ Len(w) > 1 => w[Len(w)] # 0

\* C13: on operands in [0, 2^256) every value pushed by an arithmetic,
\* comparison, bitwise, shift, SIGNEXTEND, EXP, CALLDATALOAD or PUSHn handler
\* is in [0, 2^256): every stack item fits in 256 bits.
C13_WordsFit == \A i \in 1..Len(stack) : IsWord(stack[i])

\* SHL has shifted the top bit out of a word of 256 one bits
C13_Witness ==
  /\ Completed /\ opCode = SHL
  /\ Word(pre.stack, 1) = BN(1) /\ Word(pre.stack, 2) = MAX_INTEGER
  /\ stack = <<isubn(MAX_INTEGER, 1)>>

(***************************************************************************)
(* C14                                                                     *)
(***************************************************************************)
\* the handler of opcode op has run to its end
Ran(op) == Completed /\ opCode = op

\* the operands it popped, top first, and the word it left on top
A == Word(pre.stack, 1)

B == Word(pre.stack, 2)

C == Word(pre.stack, 3)

Result == Word(stack, 1)

\* n operands were replaced by one word
Replaced(n) ==
  /\ Len(pre.stack) >= n
  /\ stack = Append(SubSeq(pre.stack, 1, Len(pre.stack) - n), Result)

\* r is the remainder of the division of n by the non-zero c: some q has
\* q * c + r = n with 0 <= r < c
IsRemainder(r, n, c) ==
  /\ ~isNeg(r) /\ lt(r, c)
  /\ add(mul(div(n, c), c), r) = n

\* C14: DIV, MOD, SDIV and SMOD push 0 for the divisor 0, ADDMOD and MULMOD
\* push 0 for the modulus 0 and otherwise (a + b) mod c and (a * b) mod c
\* of the sum and the product that are not reduced to 256 bits.
C14_ZeroDivisorAndWideModulo ==
  /\ \A op \in {DIV, MOD, SDIV, SMOD} :
       (Ran(op) /\ isZero(B)) => Replaced(2) /\ Result = BN(0)
  /\ \A op \in {ADDMOD, MULMOD} :
       (Ran(op) /\ isZero(C)) => Replaced(3) /\ Result = BN(0)
  /\ (Ran(ADDMOD) /\ ~isZero(C))
       => Replaced(3) /\ IsRemainder(Result, add(A, B), C)
  /\ (Ran(MULMOD) /\ ~isZero(C))
       => Replaced(3) /\ IsRemainder(Result, mul(A, B), C)

\* ADDMOD has run on a sum of more than 256 bits that its modulus does not
\* divide
C14_Witness ==
  /\ Ran(ADDMOD) /\ ~isZero(C) /\ ~isZero(Result)
  /\ gt(add(A, B), MAX_INTEGER)

(***************************************************************************)
(* C15                                                                     *)
(***************************************************************************)
\* the signed integer a word stands for in two's complement
Signed(w) == IF gt(w, MAX_I256) THEN sub(w, TWO_POW256) ELSE w

\* q is the quotient of a by the non-zero b truncated toward zero: the rest
\* a - q * b is smaller than b in magnitude and has the sign of a
IsTruncatedQuotient(q, a, b) ==
  LET rest == sub(a, mul(q, b))
  IN  /\ lt(abs(rest), abs(b))
      /\ isZero(rest) \/ isNeg(rest) = isNeg(a)

\* C15: SDIV pushes the signed quotient truncated toward zero, with
\* SDIV(MIN_I256, -1) = MIN_I256; SMOD pushes sign(a) * (|a| mod |b|).
C15_SignedDivision ==
  /\ (Ran(SDIV) /\ ~isZero(B))
       => /\ Replaced(2)
          /\ ~isNeg(Result) /\ lt(Result, TWO_POW256)
          /\ IF A = MIN_I256 /\ B = MAX_INTEGER THEN Result = MIN_I256
             ELSE IsTruncatedQuotient(Signed(Result), Signed(A), Signed(B))
  /\ (Ran(SMOD) /\ ~isZero(B))
       => /\ Replaced(2)
          /\ ~isNeg(Result) /\ lt(Result, TWO_POW256)
          /\ IsRemainder(abs(Signed(Result)), abs(Signed(A)), abs(Signed(B)))
          /\ isZero(Result) \/ isNeg(Signed(Result)) = isNeg(Signed(A))

\* SMOD has run on a negative dividend and a positive divisor that does not
\* divide it
C15_Witness ==
  /\ Ran(SMOD) /\ isNeg(Signed(A)) /\ ~isNeg(Signed(B)) /\ ~isZero(B)
  /\ ~isZero(Result)

(***************************************************************************)
(* C19                                                                     *)
(***************************************************************************)
\* C19: ADD, SUB and MUL compute modulo 2^256: ADD(u, SUB(0, u)) = 0,
\* MUL(u, 1) = u, MUL(u, 0) = 0, ADD(2^256 - 1, 1) = 0 and SUB(a, b) with
\* a < b is 2^256 - (b - a).
C19_ModularArithmetic ==
  /\ Ran(ADD) => Replaced(2) /\ IsRemainder(Result, add(A, B), TWO_POW256)
  /\ Ran(MUL) => Replaced(2) /\ IsRemainder(Result, mul(A, B), TWO_POW256)
  /\ Ran(SUB)
       => /\ Replaced(2)
          /\ Result = IF lt(A, B) THEN sub(TWO_POW256, sub(B, A)) ELSE sub(A, B)
  /\ (Ran(ADD) /\ code = <<SUB, ADD>>) => stack = <<BN(0)>>
  /\ (Ran(MUL) /\ B = BN(1)) => Result = A
  /\ (Ran(MUL) /\ B = BN(0)) => Result = BN(0)
  /\ (Ran(ADD) /\ A = MAX_INTEGER /\ B = BN(1)) => Result = BN(0)

\* ADD has added u to SUB(0, u) for a word u of 32 significant bytes
C19_Witness ==
  /\ Ran(ADD) /\ code = <<SUB, ADD>>
  /\ B = PatternHigh /\ A = sub(TWO_POW256, PatternHigh)
  /\ Result = BN(0)

(***************************************************************************)
(* C16                                                                     *)
(***************************************************************************)
\* C16: SIGNEXTEND(k, v) leaves v as it is for k >= 31; for k < 31 the bits
\* of the result up to bit 8k + 7 are those of v and every bit above is bit
\* 8k + 7 of v; extending the result again with the same k changes nothing.
C16_SignExtend ==
  /\ (Ran(SIGNEXTEND) /\ gten(A, 31)) => Replaced(2) /\ Result = B
  /\ (Ran(SIGNEXTEND) /\ ltn(A, 31))
       => /\ Replaced(2)
          /\ ~isNeg(Result) /\ byteLength(Result) <= 32
          /\ \A i \in 0..255 :
               testn(Result, i) = testn(B, Min(i, 8 * toNumber(A) + 7))
  /\ (Ran(SIGNEXTEND) /\ steps = 3) => Result = B

\* a positive value with bits above its sign bit has been cut down to its
\* low two bytes, and the second extension has left it so
C16_Witness ==
  /\ Ran(SIGNEXTEND) /\ steps = 3
  /\ A = BN(1) /\ Result = B
  /\ Result = BNFromBuffer(<<124, 95>>)

(***************************************************************************)
(* C17                                                                     *)
(***************************************************************************)
\* 2^n: the bit n % 8 of the word n \div 8
TwoTo(n) == MkBN(0, Zeros(n \div 8) \o <<Pow2(n % 8)>>)

\* q is the floor of n / d for the positive d: q * d <= n < (q + 1) * d
IsFloor(q, n, d) ==
  /\ cmp(mul(q, d), n) <= 0
  /\ lt(n, mul(iaddn(q, 1), d))

\* C17: for n < 256 SHL(n, v) is (v * 2^n) mod 2^256, the word MUL pushes
\* for v and 2^n, and SHR(n, v) is floor(v / 2^n); both are 0 for n >= 256.
C17_Shifts ==
  /\ (Ran(SHL) /\ ltn(A, 256))
       => /\ Replaced(2)
          /\ IsRemainder(Result, mul(B, TwoTo(toNumber(A))), TWO_POW256)
          /\ Result = mod(mul(B, TwoTo(toNumber(A))), TWO_POW256)
  /\ (Ran(SHR) /\ ltn(A, 256))
       => /\ Replaced(2)
          /\ ~isNeg(Result) /\ IsFloor(Result, B, TwoTo(toNumber(A)))
  /\ \A op \in {SHL, SHR} :
       (Ran(op) /\ gten(A, 256)) => Replaced(2) /\ Result = BN(0)

\* SHR by 255 has left the top bit of the word as 1
C17_Witness ==
  /\ Ran(SHR) /\ A = BN(255) /\ B = PatternHigh
  /\ Result = BN(1)

(***************************************************************************)
(* C18                                                                     *)
(***************************************************************************)
\* C18: for a < 256 SAR(a, b) is the two's complement of
\* floor(signed(b) / 2^a); for a >= 256 it is 0 when bit 255 of b is clear
\* and 2^256 - 1 when it is set.
C18_ArithmeticShift ==
  /\ (Ran(SAR) /\ ltn(A, 256))
       => /\ Replaced(2)
          /\ ~isNeg(Result) /\ lt(Result, TWO_POW256)
          /\ IsFloor(Signed(Result), Signed(B), TwoTo(toNumber(A)))
  /\ (Ran(SAR) /\ gten(A, 256))
       => /\ Replaced(2)
          /\ Result = IF testn(B, 255) THEN MAX_INTEGER ELSE BN(0)

\* SAR by 9 of a negative word has kept the sign
C18_Witness ==
  /\ Ran(SAR) /\ A = BN(9) /\ B = PatternHigh
  /\ testn(Result, 255) /\ Result # MAX_INTEGER

(***************************************************************************)
(* C20                                                                     *)
(***************************************************************************)
\* the number of bytes of the non-zero word w: 256^(n-1) <= w < 256^n
ByteCount(w) ==
  CHOOSE n \in 1..32 : ~lt(w, TwoTo(8 * (n - 1))) /\ lt(w, TwoTo(8 * n))

\* acc * base^n mod 2^256 by n multiplications, each reduced modulo 2^256
\* (a zero product stays zero)
RECURSIVE NaiveFrom(_, _, _)
NaiveFrom(base, n, acc) ==
  IF n = 0 \/ isZero(acc) THEN acc
  ELSE NaiveFrom(base, n - 1, mod(mul(acc, base), TWO_POW256))

NaivePow(base, n) == NaiveFrom(base, n, BN(1))

IsOdd(w) == testn(w, 0)

\* r is base^e mod 2^256, for the exponents of ExpInit: by e multiplications
\* for e < 10; an even base vanishes from e = 256 on; for an odd base
\* base^(2^254) = 1, so that base^(2^254 + 1) = base and base^(2^256 - 1) is
\* the inverse of base
IsPower(r, base, e) ==
  /\ ~isNeg(r) /\ lt(r, TWO_POW256)
  /\ ltn(e, 10) => r = NaivePow(base, toNumber(e))
  /\ (base = BN(2) /\ ltn(e, 256)) => r = TwoTo(toNumber(e))
  /\ (~IsOdd(base) /\ gten(e, 256)) => r = BN(0)
  /\ (IsOdd(base) /\ e = GroupExponent) => r = BN(1)
  /\ (IsOdd(base) /\ e = iaddn(GroupExponent, 1)) => r = base
  /\ (IsOdd(base) /\ e = MAX_INTEGER) => IsRemainder(BN(1), mul(r, base), TWO_POW256)

\* the gas EXP charges for the exponent e
ExpGas(e) == ExpByteGas * ByteCount(e)

\* C20: EXP pushes 1 for the exponent 0 (also for the base 0), 0 for the
\* base 0 and a non-zero exponent, and base^e mod 2^256 otherwise; it
\* charges expByte * byteLength(e) exactly when e is not 0, before it looks
\* at the base.
C20_Exp ==
  /\ (Executed /\ opCode = EXP /\ Len(pre.stack) >= 2 /\ isZero(B))
       => /\ Completed /\ Replaced(2) /\ Result = BN(1)
          /\ gasLeft = pre.gasLeft /\ Positions("useGas") = {}
  /\ (Executed /\ opCode = EXP /\ Len(pre.stack) >= 2 /\ ~isZero(B))
       => /\ Cardinality(Positions("useGas")) = 1
          /\ events[ThePosition(Positions("useGas"))].a = ExpGas(B)
          /\ \A i \in Positions("push") : i > ThePosition(Positions("useGas"))
          /\ IF pre.gasLeft < ExpGas(B)
             THEN Trapped("OUT_OF_GAS") /\ Positions("push") = {}
             ELSE /\ Completed /\ Replaced(2)
                  /\ gasLeft = pre.gasLeft - ExpGas(B)
                  /\ IF isZero(A) THEN Result = BN(0) ELSE IsPower(Result, A, B)

\* EXP has charged the gas of a 32-byte exponent and pushed 0 for the base 0
C20_Witness ==
  /\ Ran(EXP) /\ isZero(A) /\ B = MAX_INTEGER
  /\ Result = BN(0) /\ gasLeft = pre.gasLeft - 32 * ExpByteGas

(***************************************************************************)
(* C21                                                                     *)
(***************************************************************************)
\* position of the opcode the last handler ran: the dispatcher had advanced
\* the program counter by 1 when the handler started
OpcodePosition == pre.programCounter - 1

\* the code bytes that follow the opcode of the last handler, at most k
Following(k) ==
  [i \in 1..Max(0, Min(k, Len(code) - OpcodePosition - 1)) |-> code[OpcodePosition + 1 + i]]

\* the value of bytes read most significant first, from byte i on
RECURSIVE BigEndianFrom(_, _, _)
BigEndianFrom(bytes, i, acc) ==
  IF isZero(acc) /\ i > Len(bytes) THEN acc
  ELSE IF i > Len(bytes) THEN acc
  ELSE BigEndianFrom(bytes, i + 1, iaddn(muln(acc, 256), bytes[i]))

BigEndian(bytes) == BigEndianFrom(bytes, 1, BN(0))

\* C21: PUSHk, for the opcode 0x5f + k with 1 <= k <= 32, records one _opPush
\* counter with pushBytes = k, pushes the big-endian value of the code bytes
\* that follow the opcode (k of them when the code holds them) and leaves the
\* program counter at the opcode position plus k + 1.
C21_PushK ==
  (Executed /\ opCode \in PUSH1..PUSH32)
    => /\ opCode - PUSH0 \in 1..32
       /\ code[OpcodePosition + 1] = opCode
       /\ Completed
       /\ Len(lastCounters) = 1
       /\ lastCounters[1].name = "_opPush"
       /\ lastCounters[1].pushBytes = opCode - PUSH0
       /\ programCounter = OpcodePosition + (opCode - PUSH0) + 1
       /\ stack = Append(pre.stack, Result)
       /\ Result = BigEndian(Following(opCode - PUSH0))

\* PUSH32 at position 1 has pushed its 32 bytes, the first of them 237
C21_Witness ==
  /\ Ran(PUSH32) /\ OpcodePosition = 1
  /\ Len(Following(32)) = 32
  /\ programCounter = 34
  /\ byteLength(Result) = 32
  /\ Word(stack, 1) = BNFromBuffer(Immediate(32, 237))

(***************************************************************************)
(* C22                                                                     *)
(***************************************************************************)
\* the environment function the handler of a call opcode invokes
CallFunction(op) ==
  IF op = CALL THEN "call"
  ELSE IF op = CALLCODE THEN "callCode"
  ELSE IF op = DELEGATECALL THEN "callDelegate"
  ELSE "callStatic"

\* the value it passes: 0 for STATICCALL, the frame's own call value for
\* DELEGATECALL, the third word from the top of the stack otherwise
CallValue(op) ==
  IF op = STATICCALL THEN 0
  ELSE IF op = DELEGATECALL THEN env.callValue
  ELSE Peek(pre.stack, 3)

\* the number of words it pops
CallPops(op) == IF op \in {CALL, CALLCODE} THEN 7 ELSE 6

\* C22: STATICCALL invokes callStatic with the value 0 and DELEGATECALL
\* invokes callDelegate with the frame's own call value, each after popping
\* 6 operands; CALL and CALLCODE pop 7 operands and pass the value they
\* popped. A handler that finds fewer operands invokes nothing.
C22_CallValues ==
  (Executed /\ opCode \in CallFamily)
    => IF Len(pre.stack) < CallPops(opCode)
       THEN Trapped("STACK_UNDERFLOW") /\ InvokePositions = {}
       ELSE /\ status = "pending" \/ Completed
            /\ Cardinality(InvokePositions) = 1
            /\ events[ThePosition(InvokePositions)].k = CallFunction(opCode)
            /\ events[ThePosition(InvokePositions)].b = CallValue(opCode)
            /\ Cardinality(Positions("pop")) = 1
            /\ events[ThePosition(Positions("pop"))].a = CallPops(opCode)
            /\ ThePosition(Positions("pop")) < ThePosition(InvokePositions)
            /\ status = "pending"
                 => /\ pending.op = opCode
                    /\ pending.value = CallValue(opCode)
                    /\ stack = SubSeq(pre.stack, 1, Len(pre.stack) - CallPops(opCode))
            /\ Completed => Len(stack) = Len(pre.stack) - CallPops(opCode) + 1

\* DELEGATECALL is suspended at callDelegate with the frame's call value 9,
\* the word 4 third from the top of the stack it started on and a seventh
\* word left on the stack
C22_Witness ==
  /\ status = "pending" /\ opCode = DELEGATECALL
  /\ env.callValue = 9 /\ pending.value = 9
  /\ Peek(pre.stack, 3) = 4
  /\ Len(pre.stack) = 7 /\ Len(stack) = 1

(***************************************************************************)
(* C23                                                                     *)
(***************************************************************************)
\* the byte of the call data at 0-based position i, 0 at or beyond its size
CallDataByte(i) == IF i < Len(env.callData) THEN env.callData[i + 1] ELSE 0

\* the 32 bytes of the call data from position pos on
CallDataWord(pos) == [j \in 1..32 |-> CallDataByte(pos + j - 1)]

\* C23: CALLDATALOAD(pos) replaces pos by the big-endian word of the call
\* data bytes pos .. pos + 31, bytes at or beyond the call-data size read as
\* zero; that word is 0 for every pos at or beyond the call-data size.
C23_CallDataLoad ==
  (Executed /\ opCode = CALLDATALOAD /\ Len(pre.stack) >= 1)
    => /\ Completed
       /\ Replaced(1)
       /\ Len(lastCounters) = 1 /\ lastCounters[1].name = "opCalldataLoad"
       /\ IF gten(A, Len(env.callData))
          THEN Result = BN(0)
          ELSE Result = BigEndian(CallDataWord(toNumber(A)))

\* CALLDATALOAD(32) on call data of 33 bytes has pushed the last byte as the
\* most significant byte of the word; CALLDATALOAD(33) pushes 0
C23_Witness ==
  /\ Ran(CALLDATALOAD) /\ Len(env.callData) = 33 /\ A = BN(32)
  /\ byteLength(Result) = 32
  /\ Result = BNFromBuffer(<<CallDataOf(33)[33]>> \o Zeros(31))

(***************************************************************************)
(* C24                                                                     *)
(***************************************************************************)
\* the precompile at address a has returned
Returned(a) == opts.address = a /\ execResult # NoResult

\* the least number of 32-byte words that hold length bytes
WordsFor(length) ==
  CHOOSE n \in 0..length : 32 * n >= length /\ (n = 0 \/ 32 * (n - 1) < length)

\* the gas the SHA-256 precompile asks for the input of the call
Sha256Gas == opts.gasPrices.sha256 + opts.gasPrices.sha256Word * WordsFor(Len(opts.data))

\* C24: the SHA-256 precompile asks sha256 + sha256Word * ceil(len(data) / 32)
\* gas; with a gas limit below that it returns the out-of-gas result for the
\* gas limit and records no counter; with a gas limit equal to it or above
\* it records one preSHA256 counter with calldataLength = len(data) and
\* returns that gas with the hash of data.
C24_Sha256Gas ==
  Returned(2)
    => IF opts.gasLimit < Sha256Gas
       THEN /\ execResult = OOGResult(opts.gasLimit)
            /\ execResult.exceptionError # "none"
            /\ lastCounters = <<>>
            /\ vcm["preSHA256"] = 0
       ELSE /\ execResult.gasUsed = Sha256Gas
            /\ execResult.returnValue = sha256(opts.data)
            /\ execResult.exceptionError = "none"
            /\ Len(lastCounters) = 1
            /\ lastCounters[1].name = "preSHA256"
            /\ lastCounters[1].calldataLength = Len(opts.data)
            /\ vcm["preSHA256"] = 1

\* 33 bytes were hashed on a gas limit equal to the gas of two words
C24_Witness ==
  /\ Returned(2) /\ Len(opts.data) = 33
  /\ opts.gasPrices.sha256 = 60
  /\ opts.gasLimit = 84 /\ execResult.gasUsed = 84
  /\ vcm["preSHA256"] = 1
  /\ Len(execResult.returnValue) = 32

(***************************************************************************)
(* C25                                                                     *)
(***************************************************************************)
\* the input of the precompile call, right-padded to 160 bytes
Padded == opts.data \o Zeros(160 - Len(opts.data))

\* the 32 bytes of the padded input from 0-based position from on
InputField(from) == [i \in 1..32 |-> Padded[from + i]]

\* the signature the input lays out as hash | r | s | x | y
Declared ==
  <<InputField(0), InputField(32), InputField(64), InputField(96), InputField(128)>>

\* the 32-byte big-endian word 1
WordOne == [i \in 1..32 |-> IF i = 32 THEN 1 ELSE 0]

\* C25: with a gas limit of at least the p256verify price the precompile
\* returns that price as the gas used; it passes the fields hash, r, s, x, y
\* of the input right-padded to 160 bytes to the verification as msgHash, r,
\* s, pubKeyX, pubKeyY and returns the word 1 exactly when that signature
\* verifies, the empty value otherwise; with a gas limit below the price it
\* returns the out-of-gas result for the gas limit and verifies nothing.
C25_P256Verify ==
  Returned(256)
    => IF opts.gasLimit < opts.gasPrices.p256verify
       THEN execResult = OOGResult(opts.gasLimit) /\ events = <<>>
       ELSE /\ execResult.gasUsed = opts.gasPrices.p256verify
            /\ execResult.exceptionError = "none"
            /\ \A i \in 1..Len(events) : events[i].a = Declared
            /\ execResult.returnValue = (IF Declared \in Signatures THEN WordOne ELSE <<>>)

====
